---- MODULE Spec2Model ----
(***************************************************************************)
(* TransferManager of secure-ftp (internal/ui/file_operations.go): the     *)
(* priority queue, the bounded-parallelism scheduler (processQueue), the   *)
(* per-item execution goroutine (executeTransfer) and the caller           *)
(* operations Cancel, CancelAll, Pause, Resume, Retry, SetMaxParallel,     *)
(* ClearHistory and Stop; the token bucket RateLimiter of                  *)
(* internal/protocol/protocol.go with the callers of Wait; the             *)
(* ResumeManager with its save goroutines and its state file; the DirCache *)
(* with its sweeper; and Analyze of the Syncer.                            *)
(*                                                                         *)
(* Items are pointers shared by the queue and the history: the model keeps *)
(* one record per item ID in `items` and sequences of IDs in `queue` and   *)
(* `history`.  m.mu is held by every locked handler for its whole body, so *)
(* a locked handler is one atomic action; processQueue is split into one   *)
(* step per loop iteration and holds `mu` across them.  The statements of  *)
(* executeTransfer that run without m.mu are separate steps.               *)
(***************************************************************************)
EXTENDS Integers, Sequences, FiniteSets, TLC

\* ---- bounds of the model ----
MaxItems == 2          \* items ever created (cap on idCounter)
MaxPar == 2            \* largest limit given to NewTransferManager / SetMaxParallel
MaxPQ == 1             \* processQueue goroutines spawned and not yet run
MaxRetryItems == 3     \* items ever created in the retry scenario
MaxHistItems == 102    \* items enqueued and completed in the history scenario
MaxRate == 2           \* largest bytesPerSecond given to NewRateLimiter
MaxN == 3              \* largest n given to Wait (above MaxRate)
MaxWaiters == 2        \* goroutines calling Wait
MaxTime == 6           \* ticks counted by the clock since NewRateLimiter
TicksPerSecond == 2    \* resolution of the clock: ticks to the second
MaxTotal == 2          \* largest totalBytes given to StartTransfer
MaxSaves == 2          \* save goroutines of the ResumeManager spawned and not yet finished
MaxAgeTicks == 1       \* ticks counted since an entry's LastUpdate
MaxTTL == 2            \* largest ttl given to NewDirCache, in ticks
MaxSize == 2           \* largest size of a file in the trees given to Analyze
MaxModTime == 3        \* latest modification time of a file in the trees, in seconds
MaxStates == 4         \* states of rm.transfers recorded in the snapshot scenario

\* ---- program constants ----
HistoryCap == 100
ToleranceSeconds == 2

Priorities == {1, 5}
DirectionUpload == "upload"
DirectionDownload == "download"
Directions == {DirectionUpload, DirectionDownload}
LocalPaths == {"l1"}
RemotePaths == {"r1"}

StatusPending == "Pending"
StatusInProgress == "InProgress"
StatusCompleted == "Completed"
StatusFailed == "Failed"
StatusCancelled == "Cancelled"
StatusPaused == "Paused"
Terminal == {StatusCompleted, StatusFailed, StatusCancelled}

VARIABLES
    items,          \* ID -> TransferItem (the pointed-to structs)
    exec,           \* ID -> position and locals of the item's executeTransfer
    queue,          \* m.queue, sequence of IDs
    history,        \* m.history, sequence of IDs
    maxParallel,    \* m.maxParallel
    active,         \* m.active
    idCounter,      \* m.idCounter
    wg,             \* m.wg counter
    mctxCancelled,  \* m.cancel() has been called (parent context of every item)
    mu,             \* "free", or "pq" while a processQueue pass holds m.mu
    pqPending,      \* processQueue goroutines spawned and not yet started
    stopPc,         \* position of the caller of Stop
    waitPc,         \* position of the caller of TransferManager.Wait
    cbCount,        \* history variable: ID -> number of onComplete invocations
    sigByCancel,    \* history variable: IDs whose handle Cancel(id) signalled during the Transport call
    rl,             \* the RateLimiter: bytesPerSecond, tokens, and time.Now() - lastRefill in ticks
    waiter,         \* goroutine -> position in Wait, its n, ticks left of its time.Sleep
    clock,          \* history variable: ticks since NewRateLimiter (stops counting at MaxTime)
    consumed,       \* history variable: sum of n over the Wait(n) calls that have returned
    wrapped,        \* what WrapReader / WrapWriter last returned: the stream itself or a throttled wrapper
    transfers,      \* rm.transfers: id -> ResumeInfo (the pointed-to structs)
    stateFile,      \* the file at rm.statePath
    rmErr,          \* the error NewResumeManager returned ("nil": a manager was returned)
    saves,          \* the goroutines running rm.save: position, slice of pointers, marshalled records
    memHist,        \* history variable: the states rm.transfers has been in (recorded in the snapshot scenario)
    entries,        \* c.entries: path -> CacheEntry (Files, and time.Since(Timestamp) in ticks)
    ttl,            \* c.ttl in ticks
    ticker,         \* the ticker of cleanupLoop: ticks since it fired, and whether a tick waits in its channel
    done,           \* c.done is closed
    sweeper,        \* the cleanupLoop goroutine: "running" or "stopped"
    got,            \* what the last call of Get was asked and returned
    lastSet,        \* history variable: path -> files and age of the last Set not invalidated since
    localMap,       \* Analyze's localMap: relPath -> os.FileInfo of the local scan
    remoteMap,      \* Analyze's remoteMap: relPath -> protocol.FileInfo of the remote scan
    options,        \* s.options
    plan,           \* whether Analyze has returned, and the actions it returned
    ex,             \* the call of Execute: position, loop index, result; history: actions attempted, calls made
    ctxDone,        \* the context given to Execute is cancelled
    tree,           \* relative paths of the files under localDir and under remoteDir (the same files on both sides)
    filter          \* s.options.IgnoreHidden, ExcludePatterns and IncludePatterns

rlVars == <<rl, waiter, clock, consumed, wrapped>>

rmVars == <<transfers, stateFile, rmErr, saves, memHist>>

dcVars == <<entries, ttl, ticker, done, sweeper, got, lastSet>>

syVars == <<localMap, remoteMap, options, plan, ex, ctxDone>>

\* the caller of TransferManager.Wait
twVars == <<waitPc>>

\* the directories scanned by Analyze and the filter of the scans
fsVars == <<tree, filter>>

tmVars == <<items, exec, queue, history, maxParallel, active, idCounter, wg,
            mctxCancelled, mu, pqPending, stopPc, cbCount, sigByCancel>>

vars == <<items, exec, queue, history, maxParallel, active, idCounter, wg,
          mctxCancelled, mu, pqPending, stopPc, cbCount, sigByCancel, waitPc,
          rl, waiter, clock, consumed, wrapped,
          transfers, stateFile, rmErr, saves, memHist,
          entries, ttl, ticker, done, sweeper, got, lastSet,
          localMap, remoteMap, options, plan, ex, ctxDone, tree, filter>>

\* what an action of one component leaves alone: the variables of the others
notTM == <<rlVars, rmVars, dcVars, syVars, twVars, fsVars>>
notRL == <<tmVars, rmVars, dcVars, syVars, twVars, fsVars>>
notRM == <<tmVars, rlVars, dcVars, syVars, twVars, fsVars>>
notDC == <<tmVars, rlVars, rmVars, syVars, twVars, fsVars>>
notSY == <<tmVars, rlVars, rmVars, dcVars, twVars, fsVars>>

Ids == 1..idCounter

SeqToSet(s) == {s[k] : k \in 1..Len(s)}

\* position of the first element of s that lies in the set S, 0 when none
\* (the `for i, e := range s { if test(e) { ...; break } }` loops)
FirstPos(s, S) ==
    LET hits == {k \in 1..Len(s) : s[k] \in S}
    IN IF hits = {} THEN 0 ELSE CHOOSE k \in hits : \A j \in hits : k <= j

RemoveAt(s, k) == SubSeq(s, 1, k - 1) \o SubSeq(s, k + 1, Len(s))
InsertAt(s, k, e) == SubSeq(s, 1, k - 1) \o <<e>> \o SubSeq(s, k, Len(s))

\* item.ctx.Err() == context.Canceled: the item's context is a child of m.ctx
ctxErr(i) == items[i].cancelled \/ mctxCancelled

\* ID: fmt.Sprintf("transfer-%d", m.idCounter), kept as the number
NewItem(id, direction, localPath, remotePath, priority) ==
    [ID |-> id, Direction |-> direction, LocalPath |-> localPath, RemotePath |-> remotePath,
     Status |-> StatusPending, Priority |-> priority, cancelled |-> FALSE]

NewExec == [pc |-> "none", result |-> "none"]

\* mutant: `>=` in the insertion loop (a later item overtakes its equals)
InsertByPriority_Ge(q, id, priority) ==
    LET k == FirstPos(q, {e \in SeqToSet(q) : priority >= items[e].Priority})
    IN IF k = 0 THEN Append(q, id) ELSE InsertAt(q, k, id)

\* mutant: the insertion loop never inserts (plain FIFO)
InsertByPriority_Append(q, id, priority) == Append(q, id)

\* the priority-ordered insertion loop of addTransfer and Retry
InsertByPriority(q, id, priority) ==
    LET k == FirstPos(q, {e \in SeqToSet(q) : priority > items[e].Priority})
    IN IF k = 0 THEN Append(q, id) ELSE InsertAt(q, k, id)

\* removeFromQueue
removeFromQueue(q, id) ==
    LET k == FirstPos(q, {id})
    IN IF k = 0 THEN q ELSE RemoveAt(q, k)

\* ---- RateLimiter: construction ----
Waiters == 1..MaxWaiters

Min(a, b) == IF a < b THEN a ELSE b

\* NewRateLimiter(bytesPerSecond): a full bucket, lastRefill = time.Now()
NewRateLimiter(bytesPerSecond) ==
    [bytesPerSecond |-> bytesPerSecond, tokens |-> bytesPerSecond, sinceRefill |-> 0]

\* a limiter built with rate r, no call of Wait made yet
InitLimiter(r) ==
    /\ rl = NewRateLimiter(r)
    /\ waiter = [w \in Waiters |-> [pc |-> "idle", n |-> 0, sleep |-> 0]]
    /\ clock = 0
    /\ consumed = 0
    /\ wrapped = [k \in {"reader", "writer"} |-> "none"]

\* ---- ResumeManager (transfer/resume.go) ----
RMIds == {"t1", "t2"}
Totals == 1..MaxTotal
Offsets == 0..(MaxTotal + 1)
SaveSlots == 1..MaxSaves

\* Go maps as functions: the empty map, delete of the keys S, m[k] = v
EmptyMap == [k \in {} |-> 0]
Without(m, S) == [k \in DOMAIN m \ S |-> m[k]]
Put(m, k, v) == [j \in DOMAIN m \cup {k} |-> IF j = k THEN v ELSE m[j]]

\* what json.MarshalIndent / json.Unmarshal carry of a ResumeInfo: of its fields the
\* model keeps total_bytes and transferred_bytes, and last_update as the time since
Marshalled(info) == [TotalBytes |-> info.TotalBytes, TransferredBytes |-> info.TransferredBytes]

\* the state file: missing, not parseable as a list of records, or a list of records
AbsentFile == [kind |-> "absent", content |-> EmptyMap]
CorruptFile == [kind |-> "corrupt", content |-> EmptyMap]
ValidFile(content) == [kind |-> "valid", content |-> content]

\* the records of the files found at start: a transfer not begun and one half done
LoadedInfos == {[TotalBytes |-> MaxTotal, TransferredBytes |-> x] : x \in {0, 1}}

StateFiles ==
    {AbsentFile, CorruptFile}
        \cup {ValidFile(c) : c \in UNION {[S -> LoadedInfos] : S \in SUBSET RMIds}}

\* load: os.ReadFile, json.Unmarshal, then rm.transfers[t.ID] = t for every record
load(file) ==
    IF file.kind = "absent" THEN [err |-> "notexist", transfers |-> EmptyMap]
    ELSE IF file.kind = "corrupt" THEN [err |-> "syntax", transfers |-> EmptyMap]
    ELSE [err |-> "nil",
          transfers |-> [id \in DOMAIN file.content |->
                            [TotalBytes |-> file.content[id].TotalBytes,
                             TransferredBytes |-> file.content[id].TransferredBytes,
                             sinceUpdate |-> MaxAgeTicks]]]

\* NewResumeManager: (nil, err) when load failed with anything but a missing file
NewResumeManager(file) ==
    LET l == load(file)
    IN IF l.err # "nil" /\ l.err # "notexist"
       THEN [err |-> l.err, transfers |-> EmptyMap]
       ELSE [err |-> "nil", transfers |-> l.transfers]

IdleSave == [pc |-> "idle", ptrs |-> EmptyMap, data |-> EmptyMap]

\* what rm.transfers holds, as save marshals it
Memory == [id \in DOMAIN transfers |-> Marshalled(transfers[id])]

NoHistory == [on |-> FALSE, states |-> {}]

\* the manager NewResumeManager returned for the state file found on disk
InitManager(file) ==
    /\ stateFile = file
    /\ rmErr = NewResumeManager(file).err
    /\ transfers = NewResumeManager(file).transfers
    /\ saves = [s \in SaveSlots |-> IdleSave]

InitResume(file) == InitManager(file) /\ memHist = NoHistory

\* a manager built where no state file exists, never called
NoResume == InitResume(AbsentFile)

\* ---- DirCache (directory listing cache) ----
DCKeys == {"/a", "/b"}
FileLists == {"f1", "f2"}

\* NewDirCache(ttl): an empty map and the cleanupLoop goroutine with its ticker.
\* Ages are counted in ticks up to ttl + 1 (all the code asks is whether one exceeds ttl).
InitCache(t) ==
    /\ ttl = t
    /\ entries = EmptyMap
    /\ ticker = [since |-> 0, due |-> FALSE]
    /\ done = FALSE
    /\ sweeper = "running"
    /\ got = [path |-> "none", hit |-> FALSE, files |-> "nil"]
    /\ lastSet = EmptyMap

\* a cache with ttl 1, never called
NoCache == InitCache(1)

\* ---- Syncer (sync package): inputs of Analyze ----
ModeUpload == "Upload"
ModeDownload == "Download"
ModeMirror == "Mirror"
ModeBidirectional == "Bidirectional"
SyncModes == {ModeUpload, ModeDownload, ModeMirror, ModeBidirectional}

CompareByModTime == "ModTime"
CompareBySize == "Size"
CompareByHash == "Hash"
CompareBySizeAndTime == "SizeAndTime"
CompareMethods == {CompareByModTime, CompareBySize, CompareByHash, CompareBySizeAndTime}

\* relative paths of the files found by the two scans
SyncPaths == {"a", "b"}

\* os.FileInfo / protocol.FileInfo of a file: size, and modification time in seconds
FileInfos == [Size : 1..MaxSize, ModTime : 0..MaxModTime]

\* the maps relPath -> info that Analyze builds from a scan
FileMaps == UNION {[S -> FileInfos] : S \in SUBSET SyncPaths}

\* the orders in which `range` may walk a map over SyncPaths
RangeOrders ==
    {o \in [1..Cardinality(SyncPaths) -> SyncPaths] : \A p \in SyncPaths : \E k \in DOMAIN o : o[k] = p}

NoPlan == [done |-> FALSE, actions |-> <<>>]

\* Execute not called: no action attempted, no call made to the Transport or the os
NoExecute ==
    [pc |-> "idle", next |-> 0,
     result |-> [FilesUploaded |-> 0, FilesDownloaded |-> 0, FilesDeleted |-> 0, FilesSkipped |-> 0,
                 BytesTransferred |-> 0, Errors |-> <<>>],
     attempted |-> <<>>,
     calls |-> [List |-> 0, Upload |-> 0, Download |-> 0, Remove |-> 0, Stat |-> 0, osRemove |-> 0]]

\* the zero value of the filter options
NoFilter == [IgnoreHidden |-> FALSE, ExcludePatterns |-> {}, IncludePatterns |-> {}]

\* NewSyncer(client, manager, options), Analyze and Execute not called
NewSyncer(l, r, o) ==
    /\ localMap = l
    /\ remoteMap = r
    /\ options = o
    /\ plan = NoPlan
    /\ ex = NoExecute
    /\ ctxDone = FALSE

\* a syncer without filter next to two trees whose scans gave the maps l and r
InitSyncer(l, r, o) == NewSyncer(l, r, o) /\ tree = {} /\ filter = NoFilter

\* a syncer with the zero options over two empty trees, never called
NoSync ==
    InitSyncer(EmptyMap, EmptyMap,
               [Mode |-> ModeUpload, CompareMethod |-> CompareByModTime, DeleteExtra |-> FALSE,
                DryRun |-> FALSE])

\* NewTransferManager
InitTM ==
    /\ items = <<>>
    /\ exec = <<>>
    /\ queue = <<>>
    /\ history = <<>>
    /\ maxParallel \in 1..MaxPar
    /\ active = 0
    /\ idCounter = 0
    /\ wg = 0
    /\ mctxCancelled = FALSE
    /\ mu = "free"
    /\ pqPending = 0
    /\ stopPc = "idle"
    /\ waitPc = "idle"
    /\ cbCount = <<>>
    /\ sigByCancel = {}

\* the manager, next to a limiter that is unlimited (rate 0) and not called
Init == InitTM /\ InitLimiter(0) /\ NoResume /\ NoCache /\ NoSync

\* mutant: the call returns without `go m.processQueue()`
SpawnPQ_Never == pqPending' = pqPending

\* go m.processQueue().  A pass leaves nothing to start, and every change
\* that gives a pass something to start spawns one, so spawned passes beyond
\* MaxPQ not yet run are not counted.
SpawnPQ == pqPending' = IF pqPending < MaxPQ THEN pqPending + 1 ELSE pqPending

\* AddUpload / AddDownload -> addTransfer
addTransfer(direction, localPath, remotePath, priority) ==
    /\ mu = "free"
    /\ idCounter' = idCounter + 1
    /\ items' = Append(items, NewItem(idCounter', direction, localPath, remotePath, priority))
    /\ exec' = Append(exec, NewExec)
    /\ cbCount' = Append(cbCount, 0)
    /\ queue' = InsertByPriority(queue, idCounter + 1, priority)
    /\ SpawnPQ
    /\ UNCHANGED <<history, maxParallel, active, wg, mctxCancelled, mu, stopPc, sigByCancel, notTM>>

AddUpload == idCounter < MaxItems /\ \E l \in LocalPaths, r \in RemotePaths, p \in Priorities :
    addTransfer(DirectionUpload, l, r, p)

AddDownload == idCounter < MaxItems /\ \E l \in LocalPaths, r \in RemotePaths, p \in Priorities :
    addTransfer(DirectionDownload, l, r, p)

\* ---- processQueue ----
\* mutant: the scan of processQueue also takes a Paused item
IsPending_OrPaused(i) == items[i].Status \in {StatusPending, StatusPaused}

\* mutant: the scan of processQueue also takes an item that is already running
IsPending_OrInProgress(i) == items[i].Status \in {StatusPending, StatusInProgress}

IsPending(i) == items[i].Status = StatusPending
NextPending == LET k == FirstPos(queue, {i \in SeqToSet(queue) : IsPending(i)})
               IN IF k = 0 THEN 0 ELSE queue[k]
\* mutant: the loop of processQueue does not look at the limit
LoopCond_NoLimit == TRUE

\* mutant: `<=` in the loop condition of processQueue
LoopCond_OffByOne == active <= maxParallel

LoopCond == active < maxParallel

PQLock ==
    /\ mu = "free"
    /\ pqPending > 0
    /\ mu' = "pq"
    /\ pqPending' = pqPending - 1
    /\ UNCHANGED <<items, exec, queue, history, maxParallel, active, idCounter, wg,
                   mctxCancelled, stopPc, cbCount, sigByCancel, notTM>>

PQStart ==
    /\ mu = "pq"
    /\ LoopCond
    /\ NextPending # 0
    /\ LET i == NextPending IN
        /\ active' = active + 1
        /\ items' = [items EXCEPT ![i].Status = StatusInProgress]
        /\ wg' = wg + 1
        /\ exec' = [exec EXCEPT ![i].pc = "transport"]
    /\ UNCHANGED <<queue, history, maxParallel, idCounter, mctxCancelled, mu,
                   pqPending, stopPc, cbCount, sigByCancel, notTM>>

PQUnlock ==
    /\ mu = "pq"
    /\ ~(LoopCond /\ NextPending # 0)
    /\ mu' = "free"
    /\ UNCHANGED <<items, exec, queue, history, maxParallel, active, idCounter, wg,
                   mctxCancelled, pqPending, stopPc, cbCount, sigByCancel, notTM>>

processQueue == PQLock \/ PQStart \/ PQUnlock

\* ---- executeTransfer(item), one goroutine per started item ----
InFlight(i) == exec[i].pc \in {"transport", "write", "move", "callback", "defer"}

\* mutant: every error is a failure, item.ctx.Err() is not consulted
Outcome_IgnoresCtx(err, cancelled) ==
    IF err # "nil" THEN StatusFailed ELSE StatusCompleted

\* the outcome chosen by `if err != nil { if item.ctx.Err() == context.Canceled ...`
Outcome(err, cancelled) ==
    IF err # "nil"
    THEN IF cancelled THEN StatusCancelled ELSE StatusFailed
    ELSE StatusCompleted

\* m.client.Upload / m.client.Download returns nil or an error, and the two
\* conditions on err and item.ctx.Err() are evaluated (no lock held).  The
\* call may return nil although the context was cancelled (protocol.go: the
\* early `return nil` and the select between ctx.Done() and done).  The
\* return of the call changes no shared state, so it is one step with the
\* read of item.ctx.Err() that follows it.
TransportReturn(i, e) ==
    /\ exec[i].pc = "transport"
    /\ exec' = [exec EXCEPT ![i].pc = "write", ![i].result = Outcome(e, ctxErr(i))]
    /\ UNCHANGED <<items, queue, history, maxParallel, active, idCounter, wg,
                   mctxCancelled, mu, pqPending, stopPc, cbCount, sigByCancel, notTM>>

Upload(i) == items[i].Direction = DirectionUpload /\ \E e \in {"nil", "err"} : TransportReturn(i, e)
Download(i) == items[i].Direction = DirectionDownload /\ \E e \in {"nil", "err"} : TransportReturn(i, e)

\* item.Status = ... written without m.mu
WriteStatus(i) ==
    /\ exec[i].pc = "write"
    /\ items' = [items EXCEPT ![i].Status = exec[i].result]
    /\ exec' = [exec EXCEPT ![i].pc = "move", ![i].result = "none"]
    /\ UNCHANGED <<queue, history, maxParallel, active, idCounter, wg,
                   mctxCancelled, mu, pqPending, stopPc, cbCount, sigByCancel, notTM>>

\* mutant: a full history drops the entry just appended
AppendHistory_DropsNewest(h, id) ==
    LET h2 == Append(h, id)
    IN IF Len(h2) > HistoryCap THEN SubSeq(h2, 1, HistoryCap) ELSE h2

\* m.history = append(m.history, item); if len > 100 { m.history = m.history[1:] }
AppendHistory(h, id) ==
    LET h2 == Append(h, id)
    IN IF Len(h2) > HistoryCap THEN Tail(h2) ELSE h2

\* "Move to history", under m.mu
MoveToHistory(i) ==
    /\ exec[i].pc = "move"
    /\ mu = "free"
    /\ queue' = removeFromQueue(queue, i)
    /\ history' = AppendHistory(history, i)
    /\ exec' = [exec EXCEPT ![i].pc = "callback"]
    /\ UNCHANGED <<items, maxParallel, active, idCounter, wg,
                   mctxCancelled, mu, pqPending, stopPc, cbCount, sigByCancel, notTM>>

\* if m.onComplete != nil { m.onComplete(item) }, a callback being registered
OnComplete(i) ==
    /\ exec[i].pc = "callback"
    /\ cbCount' = [cbCount EXCEPT ![i] = @ + 1]
    /\ exec' = [exec EXCEPT ![i].pc = "defer"]
    /\ UNCHANGED <<items, queue, history, maxParallel, active, idCounter, wg,
                   mctxCancelled, mu, pqPending, stopPc, sigByCancel, notTM>>

\* the deferred calls: m.active-- under m.mu, go m.processQueue(), then
\* m.wg.Done() (nothing but wg.Wait reads the counter, so the decrement is
\* taken in the same step)
Deferred(i) ==
    /\ exec[i].pc = "defer"
    /\ mu = "free"
    /\ active' = active - 1
    /\ SpawnPQ
    /\ wg' = wg - 1
    /\ exec' = [exec EXCEPT ![i].pc = "done"]
    /\ UNCHANGED <<items, queue, history, maxParallel, idCounter,
                   mctxCancelled, mu, stopPc, cbCount, sigByCancel, notTM>>

executeTransfer(i) ==
    \/ Upload(i) \/ Download(i)
    \/ WriteStatus(i) \/ MoveToHistory(i)
    \/ OnComplete(i) \/ Deferred(i)

\* ---- caller operations ----
\* mutant: Cancel only signals the handle, whatever the status
CancelItem_SignalOnly(it) == [it EXCEPT !.cancelled = TRUE]

\* Cancel(id): the queue entry with that ID; InProgress -> item.cancel(),
\* any other status -> Status = Cancelled
CancelItem(it) ==
    IF it.Status = StatusInProgress
    THEN [it EXCEPT !.cancelled = TRUE]
    ELSE [it EXCEPT !.Status = StatusCancelled]

\* mutant: the items share one cancellation handle
CancelEffect_SharedHandle(its, id) ==
    IF its[id].Status = StatusInProgress
    THEN [j \in DOMAIN its |-> [its[j] EXCEPT !.cancelled = TRUE]]
    ELSE [its EXCEPT ![id].Status = StatusCancelled]

\* the effect of Cancel(id) on the items: only the entry with that ID
CancelEffect(its, id) == [its EXCEPT ![id] = CancelItem(its[id])]

CancelOk(id) == id \in SeqToSet(queue)

\* the error returned by Cancel(id)
CancelRet(id) == IF CancelOk(id) THEN "nil" ELSE "transfer not found"

\* a call of Cancel(id), found or not
CancelCall(id) ==
    /\ mu = "free"
    /\ IF CancelOk(id)
       THEN /\ items' = CancelEffect(items, id)
            /\ sigByCancel' = IF items[id].Status = StatusInProgress /\ exec[id].pc = "transport"
                              THEN sigByCancel \cup {id} ELSE sigByCancel
            /\ UNCHANGED <<exec, queue, history, maxParallel, active, idCounter, wg,
                           mctxCancelled, mu, pqPending, stopPc, cbCount, notTM>>
       ELSE UNCHANGED vars

\* the call of Cancel(id) that returns nil
Cancel(id) == CancelOk(id) /\ CancelCall(id)

\* body of the CancelAll loop for one queue entry
CancelAllItem(it) ==
    IF it.Status \in {StatusPending, StatusInProgress}
    THEN [it EXCEPT !.cancelled = TRUE, !.Status = StatusCancelled]
    ELSE it

CancelAllBody ==
    items' = [i \in DOMAIN items |->
                IF i \in SeqToSet(queue) THEN CancelAllItem(items[i]) ELSE items[i]]

CancelAll ==
    /\ mu = "free"
    /\ stopPc # "cancelAll"
    /\ CancelAllBody
    /\ UNCHANGED <<exec, queue, history, maxParallel, active, idCounter, wg,
                   mctxCancelled, mu, pqPending, stopPc, cbCount, sigByCancel, notTM>>

\* mutant: Pause takes the queue entry with that ID, whatever its status
PauseOk_AnyStatus(id) == id \in SeqToSet(queue)

\* `item.ID == id && item.Status == StatusPending` for some queue entry
PauseOk(id) == id \in SeqToSet(queue) /\ items[id].Status = StatusPending

\* the error returned by Pause(id)
PauseRet(id) == IF PauseOk(id) THEN "nil" ELSE "cannot pause transfer"

\* a call of Pause(id)
PauseCall(id) ==
    /\ mu = "free"
    /\ IF PauseOk(id)
       THEN /\ items' = [items EXCEPT ![id].Status = StatusPaused]
            /\ UNCHANGED <<exec, queue, history, maxParallel, active, idCounter, wg,
                           mctxCancelled, mu, pqPending, stopPc, cbCount, sigByCancel, notTM>>
       ELSE UNCHANGED vars

\* the call of Pause(id) that returns nil
Pause(id) == PauseOk(id) /\ PauseCall(id)

\* `item.ID == id && item.Status == StatusPaused` for some queue entry
ResumeOk(id) == id \in SeqToSet(queue) /\ items[id].Status = StatusPaused

\* the error returned by Resume(id)
ResumeRet(id) == IF ResumeOk(id) THEN "nil" ELSE "cannot resume transfer"

\* a call of Resume(id)
ResumeCall(id) ==
    /\ mu = "free"
    /\ IF ResumeOk(id)
       THEN /\ items' = [items EXCEPT ![id].Status = StatusPending]
            /\ SpawnPQ
            /\ UNCHANGED <<exec, queue, history, maxParallel, active, idCounter, wg,
                           mctxCancelled, mu, stopPc, cbCount, sigByCancel, notTM>>
       ELSE UNCHANGED vars

\* the call of Resume(id) that returns nil
Resume(id) == ResumeOk(id) /\ ResumeCall(id)

SetMaxParallel(n) ==
    /\ mu = "free"
    /\ maxParallel' = n
    /\ SpawnPQ
    /\ UNCHANGED <<items, exec, queue, history, active, idCounter, wg,
                   mctxCancelled, mu, stopPc, cbCount, sigByCancel, notTM>>

ClearHistory ==
    /\ mu = "free"
    /\ history' = <<>>
    /\ UNCHANGED <<items, exec, queue, maxParallel, active, idCounter, wg,
                   mctxCancelled, mu, pqPending, stopPc, cbCount, sigByCancel, notTM>>

\* mutant: the clone keeps the ID of the failed item
RetryItem_KeepsID(it, newId) ==
    NewItem(it.ID, it.Direction, it.LocalPath, it.RemotePath, it.Priority)

\* mutant: the clone takes the paths in the order of AddDownload's parameters
RetryItem_SwappedPaths(it, newId) ==
    NewItem(newId, it.Direction, it.RemotePath, it.LocalPath, it.Priority)

\* "Create new transfer with same params": the clone made by Retry
RetryItem(it, newId) ==
    NewItem(newId, it.Direction, it.LocalPath, it.RemotePath, it.Priority)

\* mutant: Retry takes the first history entry with that ID, whatever its status
RetryPos_AnyStatus(id) ==
    FirstPos(history, {e \in SeqToSet(history) : items[e].ID = id})

\* position in the history of the entry Retry(id) takes: the first one with
\* that ID and Status Failed (0: "failed transfer not found")
RetryPos(id) ==
    FirstPos(history, {e \in SeqToSet(history) : items[e].ID = id /\ items[e].Status = StatusFailed})

\* the error returned by Retry(id)
RetryRet(id) == IF RetryPos(id) # 0 THEN "nil" ELSE "failed transfer not found"

\* a call of Retry(id)
RetryCall(id) ==
    /\ mu = "free"
    /\ LET k == RetryPos(id)
       IN IF k # 0
          THEN /\ history' = RemoveAt(history, k)
               /\ idCounter' = idCounter + 1
               /\ items' = Append(items, RetryItem(items[history[k]], idCounter'))
               /\ exec' = Append(exec, NewExec)
               /\ cbCount' = Append(cbCount, 0)
               /\ queue' = InsertByPriority(queue, idCounter + 1, items[history[k]].Priority)
               /\ SpawnPQ
               /\ UNCHANGED <<maxParallel, active, wg, mctxCancelled, mu, stopPc, sigByCancel, notTM>>
          ELSE UNCHANGED vars

\* the call of Retry(id) that returns nil
retryFound(id) == RetryPos(id) # 0 /\ RetryCall(id)

Retry(id) == idCounter < MaxItems /\ retryFound(id)

\* Stop: m.cancel(); m.CancelAll(); m.wg.Wait()
StopCancel ==
    /\ stopPc = "idle"
    /\ mctxCancelled' = TRUE
    /\ stopPc' = "cancelAll"
    /\ UNCHANGED <<items, exec, queue, history, maxParallel, active, idCounter, wg,
                   mu, pqPending, cbCount, sigByCancel, notTM>>

StopCancelAll ==
    /\ stopPc = "cancelAll"
    /\ mu = "free"
    /\ CancelAllBody
    /\ stopPc' = "wait"
    /\ UNCHANGED <<exec, queue, history, maxParallel, active, idCounter, wg,
                   mctxCancelled, mu, pqPending, cbCount, sigByCancel, notTM>>

StopWait ==
    /\ stopPc = "wait"
    /\ wg = 0
    /\ stopPc' = "returned"
    /\ UNCHANGED <<items, exec, queue, history, maxParallel, active, idCounter, wg,
                   mctxCancelled, mu, pqPending, cbCount, sigByCancel, notTM>>

Stop == StopCancel \/ StopCancelAll \/ StopWait

\* m.wg.Wait() returns when the counter is 0
WgWait == wg = 0

\* a caller enters TransferManager.Wait
ManagerWaitCall ==
    /\ waitPc \in {"idle", "returned"}
    /\ waitPc' = "waiting"
    /\ UNCHANGED <<tmVars, rlVars, rmVars, dcVars, syVars, fsVars>>

\* Wait: m.wg.Wait() returns
ManagerWaitReturn ==
    /\ waitPc = "waiting"
    /\ WgWait
    /\ waitPc' = "returned"
    /\ UNCHANGED <<tmVars, rlVars, rmVars, dcVars, syVars, fsVars>>

\* ---- RateLimiter.Wait and its callers ----
\* mutant: the refill leaves lastRefill where it was
Refill_KeepsLastRefill(b) ==
    LET refill == (b.sinceRefill * b.bytesPerSecond) \div TicksPerSecond
        t == b.tokens + refill
    IN [b EXCEPT !.tokens = IF t > b.bytesPerSecond THEN b.bytesPerSecond ELSE t]

\* refill := int64(elapsed.Seconds() * float64(r.bytesPerSecond)); r.tokens += refill,
\* capped at r.bytesPerSecond; r.lastRefill = now
Refill(b) ==
    LET refill == (b.sinceRefill * b.bytesPerSecond) \div TicksPerSecond
        t == b.tokens + refill
    IN [b EXCEPT !.tokens = IF t > b.bytesPerSecond THEN b.bytesPerSecond ELSE t,
                 !.sinceRefill = 0]

\* waitTime := needed / bytesPerSecond seconds; time.Sleep returns at the first tick
\* at which that long has passed
WaitTicks(needed, rate) == (needed * TicksPerSecond + rate - 1) \div rate

\* time.Sleep(waitTime) never returns
SleepForever == -1

\* the ticks time.Sleep(waitTime) may last.  With bytesPerSecond = 0 (set by SetRate
\* while the caller is in the loop) needed / 0 is +Inf, and the conversion of +Inf to
\* time.Duration gives the smallest or the largest int64 depending on the platform:
\* time.Sleep returns at once or never does
SleepTicks(needed, rate) ==
    IF rate = 0 THEN {0, SleepForever} ELSE {WaitTicks(needed, rate)}

\* the part of Wait under r.mu from a refill to the next r.mu.Unlock(): the refill,
\* the test `r.tokens < n`, then either the computation of waitTime and the unlock
\* before time.Sleep, or `r.tokens -= n` and the return
WaitLocked(w) ==
    LET b == Refill(rl)
        n == waiter[w].n
    IN /\ IF b.tokens < n
          THEN /\ rl' = b
               /\ \E d \in SleepTicks(n - b.tokens, b.bytesPerSecond) :
                    waiter' = [waiter EXCEPT ![w].pc = "sleep", ![w].sleep = d]
               /\ UNCHANGED consumed
          ELSE /\ rl' = [b EXCEPT !.tokens = @ - n]
               /\ waiter' = [waiter EXCEPT ![w].pc = "returned"]
               /\ consumed' = consumed + n
       /\ UNCHANGED <<clock, wrapped, notRL>>

\* a goroutine calls Wait(n); calls are made until the clock stops counting
WaitCall(w, n) ==
    /\ waiter[w].pc \in {"idle", "returned"}
    /\ clock < MaxTime
    /\ waiter' = [waiter EXCEPT ![w] = [pc |-> "entry", n |-> n, sleep |-> 0]]
    /\ UNCHANGED <<rl, clock, consumed, wrapped, notRL>>

\* ThrottledReader.Read: the wrapped Read returned n bytes; Wait(n) when n > 0
ThrottledRead(w, n) == n > 0 /\ WaitCall(w, n)

\* ThrottledWriter.Write: Wait(len(p)) before the wrapped Write
ThrottledWrite(w, n) == WaitCall(w, n)

\* `if r.bytesPerSecond <= 0 { return }`, read without r.mu
\* mutant: only a negative rate counts as unlimited
Unlimited_NegativeOnly(rate) == rate < 0

\* `bytesPerSecond <= 0`: the limiter does not limit
Unlimited(rate) == rate <= 0

WaitEntry(w) ==
    /\ waiter[w].pc = "entry"
    /\ waiter' = [waiter EXCEPT ![w].pc = IF Unlimited(rl.bytesPerSecond) THEN "returned" ELSE "lock"]
    /\ UNCHANGED <<rl, clock, consumed, wrapped, notRL>>

\* r.mu.Lock() and the first refill and test
WaitFirst(w) ==
    /\ waiter[w].pc = "lock"
    /\ WaitLocked(w)

\* time.Sleep has returned: r.mu.Lock(), the refill of the loop body and the test
WaitAfterSleep(w) ==
    /\ waiter[w].pc = "sleep"
    /\ waiter[w].sleep = 0
    /\ WaitLocked(w)

\* one tick passes.  time.Now() - lastRefill is not counted beyond one second: from
\* there on the refill is at least bytesPerSecond and the bucket is filled to its cap
Tick ==
    /\ rl' = [rl EXCEPT !.sinceRefill = Min(@ + 1, TicksPerSecond)]
    /\ waiter' = [w \in Waiters |-> [waiter[w] EXCEPT !.sleep = IF @ > 0 THEN @ - 1 ELSE @]]
    /\ clock' = Min(clock + 1, MaxTime)
    /\ UNCHANGED <<consumed, wrapped, notRL>>

\* GetRate: r.bytesPerSecond, read under r.mu
GetRate == rl.bytesPerSecond

\* BandwidthLimiter.WrapReader / WrapWriter: the stream as given when the limiter
\* of that direction is unlimited, a ThrottledReader / ThrottledWriter around it
\* otherwise.  The two limiters of a BandwidthLimiter are two RateLimiter values;
\* `rl` stands for the one the call consults.
Wrap(k) ==
    /\ wrapped' = [wrapped EXCEPT ![k] = IF Unlimited(GetRate) THEN "plain" ELSE "throttled"]
    /\ UNCHANGED <<rl, waiter, clock, consumed, notRL>>

WrapReader == Wrap("reader")
WrapWriter == Wrap("writer")

\* a limiter with a fixed rate r > 0 and the goroutines calling Wait
InitRL == InitTM /\ maxParallel = 1 /\ NoResume /\ NoCache /\ NoSync /\ \E r \in 1..MaxRate : InitLimiter(r)

NextRL ==
    \/ \E w \in Waiters, n \in 0..MaxN : WaitCall(w, n)
    \/ \E w \in Waiters, n \in 0..MaxN : ThrottledRead(w, n)
    \/ \E w \in Waiters, n \in 0..MaxN : ThrottledWrite(w, n)
    \/ \E w \in Waiters : WaitEntry(w)
    \/ \E w \in Waiters : WaitFirst(w)
    \/ \E w \in Waiters : WaitAfterSleep(w)
    \/ Tick

SpecRL == InitRL /\ [][NextRL]_vars

\* SetRate(bytesPerSecond), under r.mu: the rate and a full bucket at that rate;
\* lastRefill is left alone
SetRate(bytesPerSecond) ==
    /\ rl' = [rl EXCEPT !.bytesPerSecond = bytesPerSecond, !.tokens = bytesPerSecond]
    /\ UNCHANGED <<waiter, clock, consumed, wrapped, notRL>>

\* one goroutine calls Wait with an n that fits the bucket of the current rate, while
\* another changes the rate at any time (SetRate refills the bucket, so the calls
\* are counted up to what the largest rate delivers in MaxTime seconds)
NextSetRate ==
    \/ \E n \in 1..MaxN : n <= rl.bytesPerSecond /\ consumed < MaxRate * MaxTime /\ WaitCall(1, n)
    \/ WaitEntry(1)
    \/ WaitFirst(1)
    \/ WaitAfterSleep(1)
    \/ Tick
    \/ \E r \in 0..MaxRate : SetRate(r)

FairSpecSetRate ==
    /\ InitRL
    /\ [][NextSetRate]_vars
    /\ WF_vars(Tick)
    /\ WF_vars(WaitEntry(1)) /\ WF_vars(WaitFirst(1)) /\ WF_vars(WaitAfterSleep(1))

\* a limiter with any fixed rate, 0 (unlimited) included, and its callers
InitRLAny == InitTM /\ maxParallel = 1 /\ NoResume /\ NoCache /\ NoSync /\ \E r \in 0..MaxRate : InitLimiter(r)

NextRLAny ==
    \/ NextRL
    \/ WrapReader
    \/ WrapWriter

SpecRLAny == InitRLAny /\ [][NextRLAny]_vars

\* time passes, and a goroutine that can take its next step in Wait takes it
FairSpecRL ==
    /\ SpecRL
    /\ WF_vars(Tick)
    /\ \A w \in Waiters : WF_vars(WaitEntry(w)) /\ WF_vars(WaitFirst(w)) /\ WF_vars(WaitAfterSleep(w))

\* A save holds the slice of *ResumeInfo it copied out of the map.  A struct
\* that has left the map is written by nobody afterwards, so a pointer to it
\* is kept as the struct's last field values; a pointer to a struct still in
\* the map is `live` and reads the map's entry.
\* the history of rm.transfers takes the state the step leaves
Remember ==
    memHist' = IF memHist.on
               THEN [memHist EXCEPT !.states =
                        @ \cup {[id \in DOMAIN transfers' |-> Marshalled(transfers'[id])]}]
               ELSE memHist

LivePtr == [live |-> TRUE, TotalBytes |-> 0, TransferredBytes |-> 0]
DeadPtr(info) ==
    [live |-> FALSE, TotalBytes |-> info.TotalBytes, TransferredBytes |-> info.TransferredBytes]

\* the structs of the keys S leave the map
Orphan(svs, S) ==
    [s \in SaveSlots |->
        [svs[s] EXCEPT !.ptrs =
            [id \in DOMAIN svs[s].ptrs |->
                IF id \in S /\ id \in DOMAIN transfers /\ svs[s].ptrs[id].live
                THEN DeadPtr(transfers[id])
                ELSE svs[s].ptrs[id]]]]

\* go rm.save()
CanSpawn == \E s \in SaveSlots : saves[s].pc = "idle"
SpawnSave(svs) ==
    LET s == CHOOSE t \in SaveSlots : svs[t].pc = "idle" /\ \A u \in SaveSlots : svs[u].pc = "idle" => t <= u
    IN [svs EXCEPT ![s] = [pc |-> "spawned", ptrs |-> EmptyMap, data |-> EmptyMap]]

\* StartTransfer(id, direction, localPath, remotePath, totalBytes)
StartTransfer(id, totalBytes) ==
    /\ rmErr = "nil"
    /\ CanSpawn
    /\ transfers' = Put(transfers, id,
                        [TotalBytes |-> totalBytes, TransferredBytes |-> 0, sinceUpdate |-> 0])
    /\ saves' = SpawnSave(Orphan(saves, {id}))
    /\ Remember
    /\ UNCHANGED <<stateFile, rmErr, notRM>>

\* mutant: an id without entry gets one
SetOffset_Upsert(id, transferredBytes) ==
    /\ rmErr = "nil"
    /\ CanSpawn
    /\ transfers' = Put(transfers, id,
                        [TotalBytes |-> 0, TransferredBytes |-> transferredBytes, sinceUpdate |-> 0])
    /\ saves' = SpawnSave(saves)
    /\ Remember
    /\ UNCHANGED <<stateFile, rmErr, notRM>>

\* the body of UpdateProgress and of FailTransfer
SetOffset(id, transferredBytes) ==
    /\ rmErr = "nil"
    /\ IF id \in DOMAIN transfers
       THEN /\ CanSpawn
            /\ transfers' = [transfers EXCEPT ![id].TransferredBytes = transferredBytes,
                                              ![id].sinceUpdate = 0]
            /\ saves' = SpawnSave(saves)
       ELSE UNCHANGED <<transfers, saves>>
    /\ Remember
    /\ UNCHANGED <<stateFile, rmErr, notRM>>

UpdateProgress(id, transferredBytes) == SetOffset(id, transferredBytes)

FailTransfer(id, transferredBytes) == SetOffset(id, transferredBytes)

\* CompleteTransfer(id)
CompleteTransfer(id) ==
    /\ rmErr = "nil"
    /\ CanSpawn
    /\ transfers' = Without(transfers, {id})
    /\ saves' = SpawnSave(Orphan(saves, {id}))
    /\ Remember
    /\ UNCHANGED <<stateFile, rmErr, notRM>>

\* mutant: `<=` against TotalBytes
Resumable_Le(info) == info.TransferredBytes > 0 /\ info.TransferredBytes <= info.TotalBytes

\* the test of GetIncomplete's loop
Resumable(info) == info.TransferredBytes > 0 /\ info.TransferredBytes < info.TotalBytes

\* GetIncomplete: the keys of the entries it returns
GetIncomplete == {id \in DOMAIN transfers : Resumable(transfers[id])}

\* ClearOld(maxAge): info.LastUpdate.Before(time.Now().Add(-maxAge))
Expired(maxAge) == {id \in DOMAIN transfers : transfers[id].sinceUpdate > maxAge}

ClearOld(maxAge) ==
    /\ rmErr = "nil"
    /\ CanSpawn
    /\ transfers' = Without(transfers, Expired(maxAge))
    /\ saves' = SpawnSave(Orphan(saves, Expired(maxAge)))
    /\ Remember
    /\ UNCHANGED <<stateFile, rmErr, notRM>>

\* Clear
Clear ==
    /\ rmErr = "nil"
    /\ CanSpawn
    /\ transfers' = EmptyMap
    /\ saves' = SpawnSave(Orphan(saves, DOMAIN transfers))
    /\ Remember
    /\ UNCHANGED <<stateFile, rmErr, notRM>>

\* save, under rm.mu.RLock: the pointers of the map's entries copied into a slice
SaveSnapshot(s) ==
    /\ saves[s].pc = "spawned"
    /\ saves' = [saves EXCEPT ![s] = [pc |-> "marshal",
                                      ptrs |-> [id \in DOMAIN transfers |-> LivePtr],
                                      data |-> EmptyMap]]
    /\ UNCHANGED <<transfers, stateFile, rmErr, memHist, notRM>>

\* what a pointer of a save's slice reads now
Deref(p, id) == IF p.live THEN Marshalled(transfers[id]) ELSE Marshalled(p)

\* json.MarshalIndent, after RUnlock: one struct of the slice is read, without rm.mu
SaveMarshal(s, id) ==
    /\ saves[s].pc = "marshal"
    /\ id \in DOMAIN saves[s].ptrs \ DOMAIN saves[s].data
    /\ saves' = [saves EXCEPT ![s].data = Put(@, id, Deref(saves[s].ptrs[id], id))]
    /\ UNCHANGED <<transfers, stateFile, rmErr, memHist, notRM>>

\* os.WriteFile of the marshalled list; the goroutine ends
SaveWrite(s) ==
    /\ saves[s].pc = "marshal"
    /\ DOMAIN saves[s].data = DOMAIN saves[s].ptrs
    /\ stateFile' = ValidFile(saves[s].data)
    /\ saves' = [saves EXCEPT ![s] = IdleSave]
    /\ UNCHANGED <<transfers, rmErr, memHist, notRM>>

\* time passes for the LastUpdate of the entries (counted up to MaxAgeTicks)
RMTick ==
    /\ \E id \in DOMAIN transfers : transfers[id].sinceUpdate < MaxAgeTicks
    /\ transfers' = [id \in DOMAIN transfers |->
                        [transfers[id] EXCEPT !.sinceUpdate = Min(@ + 1, MaxAgeTicks)]]
    /\ UNCHANGED <<stateFile, rmErr, saves, memHist, notRM>>

\* no goroutine is in rm.save
SavesDone == \A s \in SaveSlots : saves[s].pc = "idle"

\* a manager built over any state file; its caller makes the next call when the save
\* of the previous one has ended
InitRM == InitTM /\ maxParallel = 1 /\ InitLimiter(0) /\ NoCache /\ NoSync /\ \E f \in StateFiles : InitResume(f)

NextRM ==
    \/ \E id \in RMIds, t \in Totals : SavesDone /\ StartTransfer(id, t)
    \/ \E id \in RMIds, n \in Offsets : SavesDone /\ UpdateProgress(id, n)
    \/ \E id \in RMIds, n \in Offsets : SavesDone /\ FailTransfer(id, n)
    \/ \E id \in RMIds : SavesDone /\ CompleteTransfer(id)
    \/ \E a \in 0..(MaxAgeTicks - 1) : SavesDone /\ ClearOld(a)
    \/ SavesDone /\ Clear
    \/ \E s \in SaveSlots : SaveSnapshot(s)
    \/ \E s \in SaveSlots, id \in RMIds : SaveMarshal(s, id)
    \/ \E s \in SaveSlots : SaveWrite(s)
    \/ RMTick

SpecRM == InitRM /\ [][NextRM]_vars

\* a manager built where no state file exists; calls about one transfer are made at
\* any time, the saves of earlier calls still running
InitSave == InitTM /\ maxParallel = 1 /\ InitLimiter(0) /\ NoResume /\ NoCache /\ NoSync

NextSave ==
    \/ StartTransfer("t1", MaxTotal)
    \/ \E n \in Offsets : UpdateProgress("t1", n)
    \/ \E n \in Offsets : FailTransfer("t1", n)
    \/ CompleteTransfer("t1")
    \/ Clear
    \/ \E s \in SaveSlots : SaveSnapshot(s)
    \/ \E s \in SaveSlots : SaveMarshal(s, "t1")
    \/ \E s \in SaveSlots : SaveWrite(s)

SpecSave == InitSave /\ [][NextSave]_vars

\* a manager built over a valid state file; calls about two transfers are made at any
\* time while saves run, until rm.transfers has been in MaxStates states
InitSnap ==
    /\ InitTM /\ maxParallel = 1 /\ InitLimiter(0) /\ NoCache /\ NoSync
    /\ \E f \in StateFiles : f.kind = "valid" /\ InitManager(f)
    /\ memHist = [on |-> TRUE, states |-> {Memory}]

MoreStates == Cardinality(memHist.states) < MaxStates

NextSnap ==
    \/ \E id \in RMIds : MoreStates /\ StartTransfer(id, MaxTotal)
    \/ \E id \in RMIds, n \in 1..MaxTotal : MoreStates /\ UpdateProgress(id, n)
    \/ \E id \in RMIds, n \in 1..MaxTotal : MoreStates /\ FailTransfer(id, n)
    \/ \E id \in RMIds : MoreStates /\ CompleteTransfer(id)
    \/ \E s \in SaveSlots : SaveSnapshot(s)
    \/ \E s \in SaveSlots, id \in RMIds : SaveMarshal(s, id)
    \/ \E s \in SaveSlots : SaveWrite(s)

SpecSnap == InitSnap /\ [][NextSnap]_vars

\* ---- DirCache: operations ----
\* mutant: `>=` against the ttl
GetExpired_Ge(entry) == entry.age >= ttl

\* Get's test `time.Since(entry.Timestamp) > c.ttl`
GetExpired(entry) == entry.age > ttl

Miss == [hit |-> FALSE, files |-> "nil"]

\* what Get(path) returns, under RLock: (nil, false), or a copy of the entry's files and true
Get(path) ==
    IF path \notin DOMAIN entries THEN Miss
    ELSE IF GetExpired(entries[path]) THEN Miss
    ELSE [hit |-> TRUE, files |-> entries[path].Files]

\* a caller calls Get(path)
GetCall(path) ==
    /\ got' = [path |-> path, hit |-> Get(path).hit, files |-> Get(path).files]
    /\ UNCHANGED <<entries, ttl, ticker, done, sweeper, lastSet, notDC>>

\* Set(path, files): a copy of files with Timestamp = time.Now()
Set(path, files) ==
    /\ entries' = Put(entries, path, [Files |-> files, age |-> 0])
    /\ lastSet' = Put(lastSet, path, [Files |-> files, age |-> 0])
    /\ UNCHANGED <<ttl, ticker, done, sweeper, got, notDC>>

\* Invalidate(path)
Invalidate(path) ==
    /\ entries' = Without(entries, {path})
    /\ lastSet' = Without(lastSet, {path})
    /\ UNCHANGED <<ttl, ticker, done, sweeper, got, notDC>>

\* InvalidateAll
InvalidateAll ==
    /\ entries' = EmptyMap
    /\ lastSet' = EmptyMap
    /\ UNCHANGED <<ttl, ticker, done, sweeper, got, notDC>>

\* mutant: cleanup removes an entry as soon as its age reaches ttl
cleanupExpired_Ge(entry) == entry.age >= ttl

\* cleanup's test `now.Sub(entry.Timestamp) > c.ttl`
cleanupExpired(entry) == entry.age > ttl

\* cleanupLoop receives from ticker.C and runs cleanup
cleanup ==
    /\ sweeper = "running"
    /\ ticker.due
    /\ ticker' = [ticker EXCEPT !.due = FALSE]
    /\ entries' = Without(entries, {p \in DOMAIN entries : cleanupExpired(entries[p])})
    /\ UNCHANGED <<ttl, done, sweeper, got, lastSet, notDC>>

\* Close: close(c.done)
Close ==
    /\ ~done
    /\ done' = TRUE
    /\ UNCHANGED <<entries, ttl, ticker, sweeper, got, lastSet, notDC>>

\* cleanupLoop receives from c.done and returns
cleanupLoopExit ==
    /\ sweeper = "running"
    /\ done
    /\ sweeper' = "stopped"
    /\ UNCHANGED <<entries, ttl, ticker, done, got, lastSet, notDC>>

Older(m) == [p \in DOMAIN m |-> [m[p] EXCEPT !.age = Min(@ + 1, ttl + 1)]]

\* one tick of time: every entry ages, and the ticker fires every ttl ticks
\* (its channel holds one tick)
DCTick ==
    /\ entries' = Older(entries)
    /\ lastSet' = Older(lastSet)
    /\ ticker' = IF ticker.since + 1 >= ttl
                 THEN [since |-> 0, due |-> TRUE]
                 ELSE [ticker EXCEPT !.since = @ + 1]
    /\ UNCHANGED <<ttl, done, sweeper, got, notDC>>

\* a cache built with any ttl, its callers and its sweeper
InitDC == InitTM /\ maxParallel = 1 /\ InitLimiter(0) /\ NoResume /\ NoSync /\ \E t \in 1..MaxTTL : InitCache(t)

NextDC ==
    \/ \E p \in DCKeys : GetCall(p)
    \/ \E p \in DCKeys, f \in FileLists : Set(p, f)
    \/ \E p \in DCKeys : Invalidate(p)
    \/ InvalidateAll
    \/ cleanup
    \/ Close
    \/ cleanupLoopExit
    \/ DCTick

SpecDC == InitDC /\ [][NextDC]_vars

\* ---- Syncer: Analyze ----
Abs(d) == IF d < 0 THEN -d ELSE d

\* mutant: a difference of exactly the tolerance counts as out of sync
needsSync_AtTolerance(localInfo, remoteInfo) ==
    IF options.CompareMethod = CompareBySize
    THEN localInfo.Size # remoteInfo.Size
    ELSE IF options.CompareMethod = CompareByHash
    THEN TRUE
    ELSE \/ options.CompareMethod = CompareBySizeAndTime /\ localInfo.Size # remoteInfo.Size
         \/ Abs(localInfo.ModTime - remoteInfo.ModTime) >= ToleranceSeconds

\* needsSync(localInfo, remoteInfo)
needsSync(localInfo, remoteInfo) ==
    IF options.CompareMethod = CompareBySize
    THEN localInfo.Size # remoteInfo.Size
    ELSE IF options.CompareMethod = CompareByModTime
    THEN Abs(localInfo.ModTime - remoteInfo.ModTime) > ToleranceSeconds
    ELSE IF options.CompareMethod = CompareBySizeAndTime
    THEN IF localInfo.Size # remoteInfo.Size
         THEN TRUE
         ELSE Abs(localInfo.ModTime - remoteInfo.ModTime) > ToleranceSeconds
    ELSE TRUE

\* mutant: a time that is not older counts as newer
After_OrEqual(t, u) == t >= u

\* time.Time.After
After(t, u) == t > u

SyncAction(type, localPath, remotePath, reason) ==
    [Type |-> type, LocalPath |-> localPath, RemotePath |-> remotePath, Reason |-> reason]

\* the keys of a map in the order its `range` loop visits them, given an order of all paths
RECURSIVE RangeOver(_, _)
RangeOver(order, m) ==
    IF order = <<>> THEN <<>>
    ELSE (IF Head(order) \in DOMAIN m THEN <<Head(order)>> ELSE <<>>) \o RangeOver(Tail(order), m)

\* the appends of a loop: what each visited key appends, in the order visited
RECURSIVE Flatten(_)
Flatten(ss) == IF ss = <<>> THEN <<>> ELSE Head(ss) \o Flatten(Tail(ss))

\* the body of analyzeUpload's loop for one local file
uploadStep(p, l, r) ==
    IF p \in DOMAIN r
    THEN IF needsSync(l[p], r[p]) /\ After(l[p].ModTime, r[p].ModTime)
         THEN <<SyncAction("upload", p, p, "local file is newer")>>
         ELSE <<SyncAction("skip", p, p, "files are identical or remote is newer")>>
    ELSE <<SyncAction("upload", p, p, "file does not exist on remote")>>

analyzeUpload(order, l, r) ==
    LET keys == RangeOver(order, l)
    IN Flatten([k \in DOMAIN keys |-> uploadStep(keys[k], l, r)])

\* the body of analyzeDownload's loop for one remote file
downloadStep(p, l, r) ==
    IF p \in DOMAIN l
    THEN IF needsSync(l[p], r[p]) /\ After(r[p].ModTime, l[p].ModTime)
         THEN <<SyncAction("download", p, p, "remote file is newer")>>
         ELSE <<SyncAction("skip", p, p, "files are identical or local is newer")>>
    ELSE <<SyncAction("download", p, p, "file does not exist locally")>>

analyzeDownload(order, l, r) ==
    LET keys == RangeOver(order, r)
    IN Flatten([k \in DOMAIN keys |-> downloadStep(keys[k], l, r)])

\* the body of analyzeMirror's loop for one remote file
mirrorStep(p, l, r) ==
    IF p \notin DOMAIN l
    THEN <<SyncAction("delete_remote", "", p, "file does not exist locally")>>
    ELSE <<>>

mirrorDeletes(order, l, r) ==
    LET keys == RangeOver(order, r)
    IN Flatten([k \in DOMAIN keys |-> mirrorStep(keys[k], l, r)])

\* mutant: the deletions are planned whatever DeleteExtra says
analyzeMirror_AlwaysDeletes(order1, order2, l, r) ==
    analyzeUpload(order1, l, r) \o mirrorDeletes(order2, l, r)

analyzeMirror(order1, order2, l, r) ==
    analyzeUpload(order1, l, r)
        \o (IF options.DeleteExtra THEN mirrorDeletes(order2, l, r) ELSE <<>>)

\* the body of analyzeBidirectional's first loop for one local file
bidirectionalStep(p, l, r) ==
    IF p \in DOMAIN r
    THEN IF needsSync(l[p], r[p])
         THEN IF After(l[p].ModTime, r[p].ModTime)
              THEN <<SyncAction("upload", p, p, "local file is newer")>>
              ELSE <<SyncAction("download", p, p, "remote file is newer")>>
         ELSE <<>>
    ELSE <<SyncAction("upload", p, p, "file does not exist on remote")>>

\* the body of its second loop for one remote file
remoteOnlyStep(p, l, r) ==
    IF p \notin DOMAIN l
    THEN <<SyncAction("download", p, p, "file does not exist locally")>>
    ELSE <<>>

analyzeBidirectional(order1, order2, l, r) ==
    LET keys1 == RangeOver(order1, l)
        keys2 == RangeOver(order2, r)
    IN Flatten([k \in DOMAIN keys1 |-> bidirectionalStep(keys1[k], l, r)])
           \o Flatten([k \in DOMAIN keys2 |-> remoteOnlyStep(keys2[k], l, r)])

\* the switch of Analyze on s.options.Mode over the two maps; order1 and order2 are the
\* orders in which the first and the second `range` loop walk their map
analyzeOver(order1, order2, l, r) ==
    IF options.Mode = ModeUpload THEN analyzeUpload(order1, l, r)
    ELSE IF options.Mode = ModeDownload THEN analyzeDownload(order1, l, r)
    ELSE IF options.Mode = ModeMirror THEN analyzeMirror(order1, order2, l, r)
    ELSE analyzeBidirectional(order1, order2, l, r)

analyze(order1, order2) == analyzeOver(order1, order2, localMap, remoteMap)

\* a caller calls Analyze
Analyze ==
    /\ ~plan.done
    /\ \E order1 \in RangeOrders, order2 \in RangeOrders :
          plan' = [done |-> TRUE, actions |-> analyze(order1, order2)]
    /\ UNCHANGED <<localMap, remoteMap, options, ex, ctxDone, notSY>>

\* a syncer with any options over any two trees
InitSync ==
    /\ InitTM /\ maxParallel = 1 /\ InitLimiter(0) /\ NoResume /\ NoCache
    /\ \E l \in FileMaps, r \in FileMaps, m \in SyncModes, c \in CompareMethods, d \in BOOLEAN :
          InitSyncer(l, r, [Mode |-> m, CompareMethod |-> c, DeleteExtra |-> d, DryRun |-> FALSE])

NextSync ==
    \/ Analyze

SpecSync == InitSync /\ [][NextSync]_vars

\* ---- the scans of Analyze: scanLocalDir, scanRemoteDir, isExcluded ----
\* a path or a pattern is the sequence of its characters
HasPrefix(s, prefix) == Len(s) >= Len(prefix) /\ SubSeq(s, 1, Len(prefix)) = prefix

Slashes(s) == {k \in 1..Len(s) : s[k] = "/"}

\* filepath.Base of a relative path without trailing separator
Base(path) ==
    IF Slashes(path) = {} THEN path
    ELSE LET k == CHOOSE j \in Slashes(path) : \A i \in Slashes(path) : i <= j
         IN SubSeq(path, k + 1, Len(path))

\* filepath.Match for patterns of literal characters and `*`: a star matches any
\* sequence of characters other than the separator
RECURSIVE Match(_, _)
Match(pattern, name) ==
    IF pattern = <<>> THEN name = <<>>
    ELSE IF Head(pattern) = "*"
         THEN \/ Match(Tail(pattern), name)
              \/ name # <<>> /\ Head(name) # "/" /\ Match(pattern, Tail(name))
         ELSE name # <<>> /\ Head(name) = Head(pattern) /\ Match(Tail(pattern), Tail(name))

\* isExcluded(path)
isExcluded(path) ==
    IF \E pattern \in filter.ExcludePatterns : Match(pattern, Base(path)) \/ Match(pattern, path)
    THEN TRUE
    ELSE IF filter.IncludePatterns # {}
         THEN ~\E pattern \in filter.IncludePatterns : Match(pattern, Base(path)) \/ Match(pattern, path)
         ELSE FALSE

\* scanLocalDir: filepath.Walk visits every file of the tree (the callback returns nil
\* for a directory, so the walk goes into it); relative paths of the files kept
scanLocalDir ==
    {path \in tree : /\ ~(filter.IgnoreHidden /\ HasPrefix(Base(path), <<".">>))
                     /\ ~isExcluded(path)}

\* filepath.Join(path, entry.Name) with the prefix dir trimmed: the relative path
Join(path, name) == IF path = <<>> THEN name ELSE path \o <<"/">> \o name

\* what follows path and its separator in the relative path p of a file below path
Below(path, p) == IF path = <<>> THEN p ELSE SubSeq(p, Len(path) + 2, Len(p))

\* the first element of a relative path
FirstName(p) ==
    IF Slashes(p) = {} THEN p
    ELSE LET k == CHOOSE j \in Slashes(p) : \A i \in Slashes(p) : j <= i
         IN SubSeq(p, 1, k - 1)

\* client.List(ctx, path): the entries of the directory at the relative path
List(path) ==
    {[Name |-> FirstName(Below(path, p)), IsDir |-> Slashes(Below(path, p)) # {}] :
        p \in {q \in tree : path = <<>> \/ HasPrefix(q, path \o <<"/">>)}}

\* scanRemoteDir's scan(path): relative paths of the files kept
RECURSIVE scan(_)
scan(path) ==
    UNION {IF filter.IgnoreHidden /\ HasPrefix(entry.Name, <<".">>) THEN {}
           ELSE IF isExcluded(Join(path, entry.Name)) THEN {}
           ELSE IF entry.IsDir THEN scan(Join(path, entry.Name))
           ELSE {Join(path, entry.Name)} : entry \in List(path)}

scanRemoteDir == scan(<<>>)

\* the files of the scenario: a.go, .h, src/a.go and .git/a.go, each with the same
\* size and modification time on both sides
ScanPaths ==
    {<<"a", ".", "g", "o">>,
     <<".", "h">>,
     <<"s", "r", "c", "/", "a", ".", "g", "o">>,
     <<".", "g", "i", "t", "/", "a", ".", "g", "o">>}

SameInfo == [Size |-> 1, ModTime |-> 0]

\* the patterns of the scenario: `src` and `*.h` to exclude, `*.go` and `src/*` to include
ScanExcludes == {<<"s", "r", "c">>, <<"*", ".", "h">>}
ScanIncludes == {<<"*", ".", "g", "o">>, <<"s", "r", "c", "/", "*">>}

\* the orders in which `range` may walk a map over the paths S
OrdersOf(S) == {o \in [1..Cardinality(S) -> S] : \A p \in S : \E k \in DOMAIN o : o[k] = p}

\* Analyze over the directories: the two scans, the two maps, the plan
AnalyzeTrees ==
    /\ ~plan.done
    /\ localMap' = [path \in scanLocalDir |-> SameInfo]
    /\ remoteMap' = [path \in scanRemoteDir |-> SameInfo]
    /\ \E order1 \in OrdersOf(scanLocalDir \cup scanRemoteDir),
          order2 \in OrdersOf(scanLocalDir \cup scanRemoteDir) :
          plan' = [done |-> TRUE, actions |-> analyzeOver(order1, order2, localMap', remoteMap')]
    /\ UNCHANGED <<options, ex, ctxDone, tree, filter, notSY>>

\* a syncer with any mode and any filter over two directories that hold the same files
InitScan ==
    /\ InitTM /\ maxParallel = 1 /\ InitLimiter(0) /\ NoResume /\ NoCache
    /\ \E m \in SyncModes, d \in BOOLEAN :
          NewSyncer(EmptyMap, EmptyMap,
                    [Mode |-> m, CompareMethod |-> CompareByModTime, DeleteExtra |-> d, DryRun |-> FALSE])
    /\ tree \in SUBSET ScanPaths
    /\ filter \in [IgnoreHidden : BOOLEAN, ExcludePatterns : SUBSET ScanExcludes,
                    IncludePatterns : SUBSET ScanIncludes]

NextScan ==
    \/ AnalyzeTrees

SpecScan == InitScan /\ [][NextScan]_vars

\* ---- Syncer: Execute ----
NoErrors == <<>>

\* result := &SyncResult{}
NewResult ==
    [FilesUploaded |-> 0, FilesDownloaded |-> 0, FilesDeleted |-> 0, FilesSkipped |-> 0,
     BytesTransferred |-> 0, Errors |-> NoErrors]

\* mutant: the simulation does not count the skips
Tally_NoSkips(actions) ==
    [NewResult EXCEPT
        !.FilesUploaded = Cardinality({k \in DOMAIN actions : actions[k].Type = "upload"}),
        !.FilesDownloaded = Cardinality({k \in DOMAIN actions : actions[k].Type = "download"}),
        !.FilesDeleted = Cardinality({k \in DOMAIN actions :
                                         actions[k].Type \in {"delete_local", "delete_remote"}})]

\* the loop of the DryRun branch: one count per action, by its type
Tally(actions) ==
    [NewResult EXCEPT
        !.FilesUploaded = Cardinality({k \in DOMAIN actions : actions[k].Type = "upload"}),
        !.FilesDownloaded = Cardinality({k \in DOMAIN actions : actions[k].Type = "download"}),
        !.FilesDeleted = Cardinality({k \in DOMAIN actions :
                                         actions[k].Type \in {"delete_local", "delete_remote"}}),
        !.FilesSkipped = Cardinality({k \in DOMAIN actions : actions[k].Type = "skip"})]

\* mutant: the flag is not consulted
DryRun_Ignored == FALSE

\* `if s.options.DryRun`
DryRun == options.DryRun

\* Execute up to the replay loop: Analyze (its scan lists the remote tree through the
\* Transport), then the tally of the plan when DryRun is set
ExecuteStart ==
    /\ ex.pc = "idle"
    /\ \E order1 \in RangeOrders, order2 \in RangeOrders :
          /\ plan' = [done |-> TRUE, actions |-> analyze(order1, order2)]
          /\ ex' = IF DryRun
                   THEN [ex EXCEPT !.pc = "returned", !.result = Tally(plan'.actions),
                                   !.calls.List = @ + 1]
                   ELSE [ex EXCEPT !.pc = "loop", !.next = 1, !.calls.List = @ + 1]
    /\ UNCHANGED <<localMap, remoteMap, options, ctxDone, notSY>>

\* Analyze failed (the Transport's List returned an error): Execute returns (nil, err)
ExecuteScanFails ==
    /\ ex.pc = "idle"
    /\ ex' = [ex EXCEPT !.pc = "failed", !.calls.List = @ + 1]
    /\ UNCHANGED <<localMap, remoteMap, options, plan, ctxDone, notSY>>

\* the caller cancels the context given to Execute
CancelContext ==
    /\ ex.pc \in {"idle", "loop"}
    /\ ~ctxDone
    /\ ctxDone' = TRUE
    /\ UNCHANGED <<localMap, remoteMap, options, plan, ex, notSY>>

\* mutant: the cancellation is not reported
CancelErrors_None(errors) == errors

\* result.Errors = append(result.Errors, ctx.Err())
CancelErrors(errors) == Append(errors, "ctx")

\* the loop's `case <-ctx.Done()`: the cancellation error is recorded and Execute returns
ExecuteCancelled ==
    /\ ex.pc = "loop"
    /\ ex.next <= Len(plan.actions)
    /\ ctxDone
    /\ ex' = [ex EXCEPT !.pc = "returned", !.result.Errors = CancelErrors(@)]
    /\ UNCHANGED <<localMap, remoteMap, options, plan, ctxDone, notSY>>

\* a file written now: no file of the trees is newer
WrittenNow(info) == [Size |-> info.Size, ModTime |-> MaxModTime]

\* mutant: the replay stops at the first action that fails
AfterAction_StopOnError(k, failed) == IF failed THEN Len(plan.actions) + 1 ELSE k + 1

\* the index the loop goes to after the action at k, failed or not
AfterAction(k, failed) == k + 1

\* one iteration of the replay loop with the context not cancelled: the action at
\* ex.next is performed, and succeeds or not (a skip cannot fail)
ExecuteAction(ok) ==
    /\ ex.pc = "loop"
    /\ ex.next <= Len(plan.actions)
    /\ ~ctxDone
    /\ LET a == plan.actions[ex.next]
           step == [ex EXCEPT !.next = AfterAction(ex.next, ~ok), !.attempted = Append(@, ex.next)]
       IN IF a.Type = "upload"
          THEN /\ a.LocalPath \in DOMAIN localMap
               /\ IF ok
                  THEN /\ remoteMap' = Put(remoteMap, a.RemotePath, WrittenNow(localMap[a.LocalPath]))
                       /\ ex' = [step EXCEPT !.calls.Upload = @ + 1,
                                             !.result.FilesUploaded = @ + 1,
                                             !.result.BytesTransferred = @ + localMap[a.LocalPath].Size]
                  ELSE /\ ex' = [step EXCEPT !.calls.Upload = @ + 1,
                                             !.result.Errors = Append(@, "upload")]
                       /\ UNCHANGED remoteMap
               /\ UNCHANGED localMap
          ELSE IF a.Type = "download"
          THEN /\ a.RemotePath \in DOMAIN remoteMap
               /\ IF ok
                  THEN /\ localMap' = Put(localMap, a.LocalPath, WrittenNow(remoteMap[a.RemotePath]))
                       /\ ex' = [step EXCEPT !.calls.Download = @ + 1,
                                             !.calls.Stat = @ + 1,
                                             !.result.FilesDownloaded = @ + 1,
                                             !.result.BytesTransferred = @ + remoteMap[a.RemotePath].Size]
                  ELSE /\ ex' = [step EXCEPT !.calls.Download = @ + 1,
                                             !.result.Errors = Append(@, "download")]
                       /\ UNCHANGED localMap
               /\ UNCHANGED remoteMap
          ELSE IF a.Type = "delete_local"
          THEN /\ IF ok
                  THEN /\ localMap' = Without(localMap, {a.LocalPath})
                       /\ ex' = [step EXCEPT !.calls.osRemove = @ + 1, !.result.FilesDeleted = @ + 1]
                  ELSE /\ ex' = [step EXCEPT !.calls.osRemove = @ + 1,
                                             !.result.Errors = Append(@, "delete local")]
                       /\ UNCHANGED localMap
               /\ UNCHANGED remoteMap
          ELSE IF a.Type = "delete_remote"
          THEN /\ IF ok
                  THEN /\ remoteMap' = Without(remoteMap, {a.RemotePath})
                       /\ ex' = [step EXCEPT !.calls.Remove = @ + 1, !.result.FilesDeleted = @ + 1]
                  ELSE /\ ex' = [step EXCEPT !.calls.Remove = @ + 1,
                                             !.result.Errors = Append(@, "delete remote")]
                       /\ UNCHANGED remoteMap
               /\ UNCHANGED localMap
          ELSE /\ ok
               /\ ex' = [step EXCEPT !.result.FilesSkipped = @ + 1]
               /\ UNCHANGED <<localMap, remoteMap>>
    /\ UNCHANGED <<options, plan, ctxDone, notSY>>

\* the loop has run through the plan: Execute returns the result
ExecuteReturn ==
    /\ ex.pc = "loop"
    /\ ex.next > Len(plan.actions)
    /\ ex' = [ex EXCEPT !.pc = "returned"]
    /\ UNCHANGED <<localMap, remoteMap, options, plan, ctxDone, notSY>>

\* the trees of the replay scenario: every file of size 1, written at time 0 or MaxModTime
ExecMaps == {m \in FileMaps : \A p \in DOMAIN m : m[p].Size = 1 /\ m[p].ModTime \in {0, MaxModTime}}

\* a syncer comparing by time, with any mode and flags, over two such trees; one call of Execute
InitExec ==
    /\ InitTM /\ maxParallel = 1 /\ InitLimiter(0) /\ NoResume /\ NoCache
    /\ \E l \in ExecMaps, r \in ExecMaps, m \in SyncModes, d \in BOOLEAN, y \in BOOLEAN :
          InitSyncer(l, r, [Mode |-> m, CompareMethod |-> CompareByModTime,
                            DeleteExtra |-> d, DryRun |-> y])

NextExec ==
    \/ ExecuteStart
    \/ ExecuteScanFails
    \/ CancelContext
    \/ ExecuteCancelled
    \/ \E ok \in BOOLEAN : ExecuteAction(ok)
    \/ ExecuteReturn

SpecExec == InitExec /\ [][NextExec]_vars

Next ==
    \/ AddUpload
    \/ AddDownload
    \/ PQLock
    \/ PQStart
    \/ PQUnlock
    \/ \E i \in Ids : Upload(i)
    \/ \E i \in Ids : Download(i)
    \/ \E i \in Ids : WriteStatus(i)
    \/ \E i \in Ids : MoveToHistory(i)
    \/ \E i \in Ids : OnComplete(i)
    \/ \E i \in Ids : Deferred(i)
    \/ \E id \in Ids : Cancel(id)
    \/ CancelAll
    \/ \E id \in Ids : Pause(id)
    \/ \E id \in Ids : Resume(id)
    \/ \E id \in Ids : Retry(id)
    \/ \E n \in 0..MaxPar : SetMaxParallel(n)
    \/ ClearHistory

Spec == Init /\ [][Next]_vars

TypeOK ==
    /\ DOMAIN items = Ids /\ DOMAIN exec = Ids /\ DOMAIN cbCount = Ids
    /\ active \in 0..idCounter
    /\ wg \in 0..idCounter
    /\ pqPending \in 0..MaxPQ
    /\ mu \in {"free", "pq"}

\* ---- the [1, 5, 3] scenario: three successive enqueues, limit 1, no other caller ----
C5Priorities == <<1, 5, 3>>

InitC5 == Init /\ maxParallel = 1

AddScripted ==
    /\ idCounter < Len(C5Priorities)
    /\ \E d \in Directions, l \in LocalPaths, r \in RemotePaths :
         addTransfer(d, l, r, C5Priorities[idCounter + 1])

NextC5 ==
    \/ AddScripted
    \/ PQLock
    \/ PQStart
    \/ PQUnlock
    \/ \E i \in Ids : Upload(i)
    \/ \E i \in Ids : Download(i)
    \/ \E i \in Ids : WriteStatus(i)
    \/ \E i \in Ids : MoveToHistory(i)
    \/ \E i \in Ids : OnComplete(i)
    \/ \E i \in Ids : Deferred(i)

SpecC5 == InitC5 /\ [][NextC5]_vars

\* ---- Stop running next to the callers and the scheduler ----
\* the callers act until Stop has returned; the goroutines already spawned go on
NextStop ==
    \/ StopCancel
    \/ StopCancelAll
    \/ StopWait
    \/ stopPc # "returned" /\ AddUpload
    \/ stopPc # "returned" /\ AddDownload
    \/ \E id \in Ids : stopPc # "returned" /\ Pause(id)
    \/ \E id \in Ids : stopPc # "returned" /\ Resume(id)
    \/ \E id \in Ids : stopPc # "returned" /\ Retry(id)
    \/ PQLock
    \/ PQStart
    \/ PQUnlock
    \/ \E i \in Ids : Upload(i)
    \/ \E i \in Ids : Download(i)
    \/ \E i \in Ids : WriteStatus(i)
    \/ \E i \in Ids : MoveToHistory(i)
    \/ \E i \in Ids : OnComplete(i)
    \/ \E i \in Ids : Deferred(i)

SpecStop == Init /\ [][NextStop]_vars

\* ---- more than HistoryCap items enqueued and completed, limit 1 ----
\* uploads of one priority, enqueued while at most one other waits; every Transport
\* call succeeds; nothing is retried or cleared.  With limit 1 and one priority
\* the items finish in the order of their IDs.
InitHist == Init /\ maxParallel = 1

AddForHistory ==
    /\ idCounter < MaxHistItems
    /\ Len(queue) < 2
    /\ \E l \in LocalPaths, r \in RemotePaths : addTransfer(DirectionUpload, l, r, 1)

NextHist ==
    \/ AddForHistory
    \/ PQLock
    \/ PQStart
    \/ PQUnlock
    \/ \E i \in Ids : TransportReturn(i, "nil")
    \/ \E i \in Ids : WriteStatus(i)
    \/ \E i \in Ids : MoveToHistory(i)
    \/ \E i \in Ids : OnComplete(i)
    \/ \E i \in Ids : Deferred(i)

SpecHist == InitHist /\ [][NextHist]_vars

\* ---- Retry next to items that are queued, running, cancelled and finished ----
InitRetry == Init /\ maxParallel = 1

AddForRetry ==
    /\ idCounter < MaxRetryItems
    /\ \E d \in Directions, l \in LocalPaths, r \in RemotePaths, p \in Priorities :
         addTransfer(d, l, r, p)

NextRetry ==
    \/ AddForRetry
    \/ \E id \in Ids : idCounter < MaxRetryItems /\ retryFound(id)
    \/ \E id \in Ids : Cancel(id)
    \/ PQLock
    \/ PQStart
    \/ PQUnlock
    \/ \E i \in Ids : Upload(i)
    \/ \E i \in Ids : Download(i)
    \/ \E i \in Ids : WriteStatus(i)
    \/ \E i \in Ids : MoveToHistory(i)
    \/ \E i \in Ids : OnComplete(i)
    \/ \E i \in Ids : Deferred(i)

SpecRetry == InitRetry /\ [][NextRetry]_vars

\* ---- Pause and Resume next to the scheduler, with the goroutines scheduled fairly ----
NextPause ==
    \/ AddUpload
    \/ AddDownload
    \/ \E id \in Ids : Pause(id)
    \/ \E id \in Ids : Resume(id)
    \/ PQLock
    \/ PQStart
    \/ PQUnlock
    \/ \E i \in Ids : Upload(i)
    \/ \E i \in Ids : Download(i)
    \/ \E i \in Ids : WriteStatus(i)
    \/ \E i \in Ids : MoveToHistory(i)
    \/ \E i \in Ids : OnComplete(i)
    \/ \E i \in Ids : Deferred(i)

\* every spawned goroutine runs: a step that needs no lock is taken when it stays
\* enabled, a step that takes m.mu is taken when it is enabled again and again
\* (sync.Mutex hands the lock to a goroutine that waits long enough); the Transport
\* call of a started item returns
GoroutinesFair ==
    /\ SF_vars(PQLock)
    /\ WF_vars(PQStart)
    /\ WF_vars(PQUnlock)
    /\ \A i \in 1..MaxItems :
         /\ WF_vars(i \in Ids /\ (Upload(i) \/ Download(i)))
         /\ WF_vars(i \in Ids /\ WriteStatus(i))
         /\ SF_vars(i \in Ids /\ MoveToHistory(i))
         /\ WF_vars(i \in Ids /\ OnComplete(i))
         /\ SF_vars(i \in Ids /\ Deferred(i))

FairSpecPause == Init /\ [][NextPause]_vars /\ GoroutinesFair

\* ---- SetMaxParallel next to the scheduler, with the goroutines scheduled fairly ----
NextLimit ==
    \/ AddUpload
    \/ AddDownload
    \/ \E n \in 0..MaxPar : SetMaxParallel(n)
    \/ PQLock
    \/ PQStart
    \/ PQUnlock
    \/ \E i \in Ids : Upload(i)
    \/ \E i \in Ids : Download(i)
    \/ \E i \in Ids : WriteStatus(i)
    \/ \E i \in Ids : MoveToHistory(i)
    \/ \E i \in Ids : OnComplete(i)
    \/ \E i \in Ids : Deferred(i)

FairSpecLimit == Init /\ [][NextLimit]_vars /\ GoroutinesFair

\* ---- the scheduler while items are added, paused and resumed and the limit is
\* changed to values of at least 1, with the goroutines scheduled fairly ----
NextProgress ==
    \/ AddUpload
    \/ AddDownload
    \/ \E n \in 1..MaxPar : SetMaxParallel(n)
    \/ \E id \in Ids : Pause(id)
    \/ \E id \in Ids : Resume(id)
    \/ PQLock
    \/ PQStart
    \/ PQUnlock
    \/ \E i \in Ids : Upload(i)
    \/ \E i \in Ids : Download(i)
    \/ \E i \in Ids : WriteStatus(i)
    \/ \E i \in Ids : MoveToHistory(i)
    \/ \E i \in Ids : OnComplete(i)
    \/ \E i \in Ids : Deferred(i)

FairSpecProgress == Init /\ [][NextProgress]_vars /\ GoroutinesFair

\* ---- Wait called at any time next to AddUpload / AddDownload and the scheduler ----
NextWait ==
    \/ AddUpload
    \/ AddDownload
    \/ ManagerWaitCall
    \/ ManagerWaitReturn
    \/ PQLock
    \/ PQStart
    \/ PQUnlock
    \/ \E i \in Ids : Upload(i)
    \/ \E i \in Ids : Download(i)
    \/ \E i \in Ids : WriteStatus(i)
    \/ \E i \in Ids : MoveToHistory(i)
    \/ \E i \in Ids : OnComplete(i)
    \/ \E i \in Ids : Deferred(i)

SpecWait == Init /\ [][NextWait]_vars

\* ---- every call of Cancel, Pause, Resume and Retry, with any ID ----
\* the IDs a caller may pass: those of created items and those never issued
CallIds == 1..MaxItems

NextCalls ==
    \/ AddUpload
    \/ AddDownload
    \/ PQLock
    \/ PQStart
    \/ PQUnlock
    \/ \E i \in Ids : Upload(i)
    \/ \E i \in Ids : Download(i)
    \/ \E i \in Ids : WriteStatus(i)
    \/ \E i \in Ids : MoveToHistory(i)
    \/ \E i \in Ids : OnComplete(i)
    \/ \E i \in Ids : Deferred(i)
    \/ \E id \in CallIds : CancelCall(id)
    \/ \E id \in CallIds : PauseCall(id)
    \/ \E id \in CallIds : ResumeCall(id)
    \/ \E id \in CallIds : (RetryPos(id) = 0 \/ idCounter < MaxItems) /\ RetryCall(id)

SpecCalls == Init /\ [][NextCalls]_vars

\* ---- vocabulary of the properties ----
Started(i) == i \in Ids /\ exec[i].pc # "none"
Starts(i) == i \in Ids /\ exec[i].pc = "none" /\ exec'[i].pc = "transport"
Finished(i) == i \in Ids /\ exec[i].pc \in {"callback", "defer", "done"}
Queued == SeqToSet(queue)
\* j is served before i: strictly higher priority, or equal priority and enqueued earlier
Before(j, i) ==
    \/ items[j].Priority > items[i].Priority
    \/ items[j].Priority = items[i].Priority /\ j < i
\* nothing is running and no scheduling pass is running or to come
Quiescent == mu = "free" /\ pqPending = 0 /\ \A i \in Ids : ~InFlight(i)

LegalTransitions ==
    {<<StatusPending, StatusInProgress>>, <<StatusPending, StatusPaused>>,
     <<StatusPending, StatusCancelled>>, <<StatusInProgress, StatusCompleted>>,
     <<StatusInProgress, StatusFailed>>, <<StatusInProgress, StatusCancelled>>,
     <<StatusPaused, StatusPending>>, <<StatusPaused, StatusCancelled>>}

\* C1 (as stated): in every reachable state the active count is at most maxParallel.
C1_ActiveAtMostMax == active <= maxParallel

\* C1 (amended): active <= maxParallel is broken only by a SetMaxParallel that
\* lowers the limit below the running count; no step raises the active count
\* to a value above the limit in force.
C1_ActiveBoundedUnlessLowered ==
    [][active' > maxParallel' =>
         /\ active' <= active
         /\ (active <= maxParallel => maxParallel' < maxParallel)]_vars

C1_Witness ==
    /\ active = maxParallel
    /\ active >= 1
    /\ mu = "pq"
    /\ NextPending # 0

\* C2: every change of an item's status is an edge of the legal graph, and
\* Completed, Failed and Cancelled are never left.
C2_LegalStatusChanges ==
    [][\A i \in Ids :
         items'[i].Status # items[i].Status =>
             <<items[i].Status, items'[i].Status>> \in LegalTransitions]_vars

\* C3: an item is launched only from Pending, together with its
\* Pending->InProgress change, an execution position is never reset to
\* "not launched", and active equals the number of launched executions that
\* have not yet decremented it.
C3_StartedOnce ==
    /\ [](active = Cardinality({i \in Ids : InFlight(i)}) /\ active >= 0)
    /\ [][\A i \in Ids :
            /\ (exec'[i].pc = "transport" /\ exec[i].pc # "transport") =>
                   (exec[i].pc = "none" /\ items[i].Status = StatusPending
                    /\ items'[i].Status = StatusInProgress /\ active' = active + 1)
            /\ (items'[i].Status = StatusInProgress /\ items[i].Status # StatusInProgress) =>
                   Starts(i)
            /\ (exec[i].pc # "none" => exec'[i].pc # "none")]_vars

C3_Witness ==
    /\ active = 2
    /\ pqPending > 0
    /\ Cardinality({i \in Ids : exec[i].pc = "transport"}) = 2

\* C4: when a scheduling pass starts an item, no queued Pending item has a
\* strictly higher priority, or the same priority and an earlier enqueue.
C4_StartsBestPending ==
    [][\A i \in Ids :
         Starts(i) =>
             ~\E j \in Queued : j # i /\ items[j].Status = StatusPending /\ Before(j, i)]_vars

C4_Witness ==
    \E i \in Ids, j \in Ids :
        /\ j < i
        /\ items[j].Priority < items[i].Priority
        /\ exec[i].pc = "transport"
        /\ items[j].Status = StatusPending
        /\ exec[j].pc = "none"

\* C5 (as stated): enqueued as [1, 5, 3] with limit 1, the priority-5 item (ID 2)
\* is started before the priority-3 item (ID 3), which is started before the
\* priority-1 item (ID 1).
C5_StartOrder531 ==
    /\ (Started(3) => Started(2))
    /\ (Started(1) => Started(3))

\* C5 (amended): the priority-5 item is started before the priority-3 item, and
\* the priority-1 item is started after the priority-3 item unless a
\* scheduling pass starts it before the third enqueue.
C5_StartOrderOnceEnqueued ==
    [][/\ (Starts(3) => Started(2))
       /\ (Starts(1) => (idCounter < 3 \/ Started(3)))]_vars

C5_Witness ==
    /\ idCounter = 3
    /\ Finished(2)
    /\ Finished(3)
    /\ exec[1].pc = "transport"

\* C6: once nothing is left to run, every item whose status is Completed,
\* Failed or Cancelled has left the queue and has been appended to the history.
C6_TerminalLeavesQueue ==
    Quiescent =>
        \A i \in Ids : items[i].Status \in Terminal => (i \notin Queued /\ Finished(i))

\* C7: the completion callback is invoked at most once per item, and once
\* nothing is left to run it has been invoked once for every item whose status
\* is Completed, Failed or Cancelled.
C7_CallbackExactlyOnce ==
    /\ \A i \in Ids : cbCount[i] <= 1
    /\ Quiescent => \A i \in Ids : items[i].Status \in Terminal => cbCount[i] = 1

\* C8 (as stated): an item whose handle Cancel(id) signalled before its
\* Transport call returned ends Cancelled.
C8_SignalledEndsCancelled ==
    \A i \in sigByCancel : Finished(i) => items[i].Status = StatusCancelled

\* C8 (amended): such an item never ends Failed: it ends Cancelled, or
\* Completed when the Transport call returns no error.
C8_SignalledNeverFailed ==
    \A i \in sigByCancel :
        /\ exec[i].pc = "write" => exec[i].result \in {StatusCancelled, StatusCompleted}
        /\ exec[i].pc \in {"move", "callback", "defer", "done"} =>
               items[i].Status \in {StatusCancelled, StatusCompleted}

C8_Witness ==
    \E i \in sigByCancel : Finished(i) /\ items[i].Status = StatusCancelled

\* C9: Cancel(id) on a Pending item leaves it Cancelled, and an item that is
\* Cancelled without having been started is never started.
C9_CancelledPendingNeverStarts ==
    [][\A i \in Ids :
         /\ (Cancel(i) /\ items[i].Status = StatusPending) =>
                (items'[i].Status = StatusCancelled /\ exec'[i].pc = "none")
         /\ (items[i].Status = StatusCancelled /\ exec[i].pc = "none") =>
                (items'[i].Status = StatusCancelled /\ exec'[i].pc = "none"
                 /\ ~InFlight(i))]_vars

C9_Witness ==
    \E i \in Ids :
        /\ items[i].Status = StatusCancelled
        /\ ~items[i].cancelled
        /\ exec[i].pc = "none"
        /\ i \in Queued
        /\ mu = "pq"
        /\ active < maxParallel

\* C10: Cancel(id) changes nothing of any other item (status, cancellation
\* signal), of any execution, of the queue, the history or the active count.
C10_CancelFrame ==
    [][\A id \in Ids :
         Cancel(id) =>
             /\ \A j \in Ids \ {id} : items'[j] = items[j]
             /\ exec' = exec
             /\ queue' = queue
             /\ history' = history
             /\ active' = active
             /\ mctxCancelled' = mctxCancelled]_vars

C10_Witness ==
    \E i \in Ids, j \in Ids :
        /\ i # j
        /\ i \in sigByCancel
        /\ items[j].Status = StatusInProgress
        /\ ~items[j].cancelled
        /\ exec[j].pc = "transport"

\* C11: when Stop has returned no execution is in flight and the active count is 0,
\* whatever AddUpload/AddDownload, Pause/Resume, Retry or a scheduling pass did while
\* Stop was running
C11_StopLeavesNothingRunning ==
    stopPc = "returned" => (active = 0 /\ \A i \in Ids : ~InFlight(i))

\* C12: the history never holds more than HistoryCap items, and once n items have
\* finished (in the order of their IDs, none retried, history not cleared) it is
\* exactly the last min(n, HistoryCap) of them in completion order
C12_HistoryIsLastFinished ==
    LET n == Cardinality({i \in Ids : Finished(i)})
        m == IF n > HistoryCap THEN HistoryCap ELSE n
    IN /\ Len(history) <= HistoryCap
       /\ history = [j \in 1..m |-> n - m + j]

C12_Witness ==
    /\ Len(history) = HistoryCap
    /\ Cardinality({i \in Ids : Finished(i)}) >= HistoryCap + 2
    /\ history[1] = 3

\* C13: a step of Retry (the only step that creates an item and changes the history)
\* removes exactly one Failed entry from the history, leaves every existing item
\* record and the order of the other queue entries unchanged, and inserts one new
\* Pending item with a fresh ID and the Direction, LocalPath, RemotePath and Priority
\* of the removed entry, after every queued item of greater or equal priority and
\* before every queued item of lower priority
C13_RetryClonesFailedEntry ==
    [][(idCounter' = idCounter + 1 /\ history' # history) =>
        \E k \in 1..Len(history) :
            LET old == items[history[k]]
                new == items'[idCounter']
            IN /\ old.Status = StatusFailed
               /\ history' = RemoveAt(history, k)
               /\ \A i \in Ids : items'[i] = items[i] /\ items[i].ID # new.ID
               /\ new.Status = StatusPending
               /\ new.Direction = old.Direction
               /\ new.LocalPath = old.LocalPath
               /\ new.RemotePath = old.RemotePath
               /\ new.Priority = old.Priority
               /\ \E pos \in 1..Len(queue') :
                    /\ queue'[pos] = idCounter'
                    /\ RemoveAt(queue', pos) = queue
                    /\ \A j \in 1..(pos - 1) : items'[queue'[j]].Priority >= new.Priority
                    /\ \A j \in (pos + 1)..Len(queue') : items'[queue'[j]].Priority < new.Priority
      ]_vars

\* item 1 failed and was retried as item 3, which waits behind item 2 of equal priority
C13_Witness ==
    /\ idCounter = 3
    /\ items[1].Status = StatusFailed /\ exec[1].pc = "done" /\ 1 \notin SeqToSet(history)
    /\ queue = <<2, 3>>
    /\ items[2].Status = StatusPending /\ items[3].Status = StatusPending
    /\ items[3].Priority = items[2].Priority
    /\ items[3].Direction = items[1].Direction /\ items[3].Direction # items[2].Direction

\* C14: a step of Retry takes an entry that is in the history with Status Failed and
\* is not in the queue; an item enters the history only from its own execution, once,
\* its status no longer changes there, and an entry that left the history never comes
\* back: so a Cancelled or Completed item, a queued item and an already retried item
\* are never retried
C14_RetryOnlyFailedOnce ==
    /\ [](\A k1, k2 \in 1..Len(history) : history[k1] = history[k2] => k1 = k2)
    /\ [][/\ (idCounter' = idCounter + 1 /\ history' # history) =>
               \E k \in 1..Len(history) :
                   /\ items[history[k]].Status = StatusFailed
                   /\ history[k] \notin Queued
                   /\ history' = RemoveAt(history, k)
          /\ \A i \in Ids :
               /\ (i \in SeqToSet(history') /\ i \notin SeqToSet(history)) => exec[i].pc = "move"
               /\ i \in SeqToSet(history) => items'[i].Status = items[i].Status
         ]_vars

\* item i failed and was retried, item j ended Cancelled or Completed and is in the
\* history, and one more item may still be created
C14_Witness ==
    /\ idCounter < MaxRetryItems
    /\ \E i, j \in Ids :
         /\ items[i].Status = StatusFailed /\ Finished(i) /\ i \notin SeqToSet(history)
         /\ j \in SeqToSet(history) /\ items[j].Status \in {StatusCancelled, StatusCompleted}

\* C15: an item becomes Paused only from Pending while it is queued, and becomes
\* Pending again only from Paused while it is queued, a scheduling pass being spawned
\* by that step; a Paused item is queued and not started, and no step starts it; and
\* an item that is Pending (as it is after Resume) is eventually started, unless it
\* is paused again first
C15_PauseResume ==
    /\ [](\A i \in Ids : items[i].Status = StatusPaused => (i \in Queued /\ exec[i].pc = "none"))
    /\ [][\A i \in Ids :
            /\ (items'[i].Status = StatusPaused /\ items[i].Status # StatusPaused)
                 => (items[i].Status = StatusPending /\ i \in Queued)
            /\ (items'[i].Status = StatusPending /\ items[i].Status # StatusPending)
                 => (items[i].Status = StatusPaused /\ i \in Queued /\ pqPending' > 0)
            /\ items[i].Status = StatusPaused => exec'[i].pc = "none"
         ]_vars
    /\ \A i \in 1..MaxItems :
         (i \in Ids /\ items[i].Status = StatusPending)
            ~> (i \in Ids /\ (Started(i) \/ items[i].Status = StatusPaused))

\* a pass holds the lock with a free slot and finds nothing to start while item i
\* waits Paused
C15_Witness ==
    /\ mu = "pq" /\ active < maxParallel /\ NextPending = 0
    /\ \E i \in Queued : items[i].Status = StatusPaused

\* C16: a call of Cancel, Pause or Resume with an ID that is not in the queue, a call
\* of Retry with an ID that is not in the history, a call of Pause on an item that is
\* not Pending, of Resume on an item that is not Paused and of Retry on an item that
\* is not Failed returns an error and leaves the queue, the history, every item's
\* status, the active count and the ID counter unchanged
C16_FailedCallChangesNothing ==
    [][\A id \in CallIds :
        LET Same == /\ UNCHANGED <<queue, history, active, idCounter>>
                    /\ \A i \in Ids : items'[i].Status = items[i].Status
        IN /\ (id \notin Queued /\ CancelCall(id))
                => (CancelRet(id) # "nil" /\ Same)
           /\ ((id \notin Queued \/ items[id].Status # StatusPending) /\ PauseCall(id))
                => (PauseRet(id) # "nil" /\ Same)
           /\ ((id \notin Queued \/ items[id].Status # StatusPaused) /\ ResumeCall(id))
                => (ResumeRet(id) # "nil" /\ Same)
           /\ ((id \notin SeqToSet(history) \/ items[id].Status # StatusFailed) /\ RetryCall(id))
                => (RetryRet(id) # "nil" /\ Same)
      ]_vars

\* item i runs (Pause and Resume of it fail), item j is in the history and did not
\* fail (Cancel, Pause, Resume and Retry of it fail)
C16_Witness ==
    /\ mu = "free"
    /\ \E i, j \in Ids :
         /\ i \in Queued /\ items[i].Status = StatusInProgress
         /\ PauseRet(i) # "nil" /\ ResumeRet(i) # "nil" /\ RetryRet(i) # "nil"
         /\ j \in SeqToSet(history) /\ items[j].Status # StatusFailed
         /\ CancelRet(j) # "nil" /\ PauseRet(j) # "nil" /\ RetryRet(j) # "nil"

\* C17: a step that changes the limit changes no item (status, cancellation handle),
\* no execution, not the queue and not the active count, and spawns a scheduling
\* pass; an item is started only while the active count is below the current limit;
\* and a Pending item that waits while a slot is free under the current limit is
\* eventually started, unless the slots fill up or the limit is lowered first
C17_LimitChange ==
    /\ [][/\ maxParallel' # maxParallel =>
               (items' = items /\ exec' = exec /\ queue' = queue /\ active' = active
                /\ pqPending' > 0)
          /\ \A i \in Ids : Starts(i) => active < maxParallel
         ]_vars
    /\ \A i \in 1..MaxItems :
         (i \in Ids /\ items[i].Status = StatusPending /\ active < maxParallel)
            ~> (i \in Ids /\ (Started(i) \/ active >= maxParallel))

\* the limit was lowered below the number of running items: they keep running, and a
\* pass holding the lock leaves the Pending item waiting
C17_Witness ==
    /\ active > maxParallel
    /\ mu = "pq" /\ NextPending # 0
    /\ \E i \in Queued : items[i].Status = StatusInProgress /\ ~items[i].cancelled

\* C18: the IDs of all items ever created (queued, running, in the history, or gone
\* from it) are pairwise different; an item keeps its ID, the counter never goes
\* down, and an item created by AddUpload, AddDownload or Retry gets an ID above
\* every value the counter had before
C18_IdsUnique ==
    /\ [](\A i, j \in DOMAIN items : items[i].ID = items[j].ID => i = j)
    /\ [][/\ idCounter' >= idCounter
          /\ \A i \in DOMAIN items : items'[i].ID = items[i].ID
          /\ \A i \in DOMAIN items' : i \notin DOMAIN items => items'[i].ID > idCounter
         ]_vars

\* MaxRetryItems items exist, one of them created by Retry from an item that has
\* left the history
C18_Witness ==
    /\ idCounter = MaxRetryItems
    /\ Cardinality({items[i].ID : i \in DOMAIN items}) = MaxRetryItems
    /\ \E i \in Ids : Finished(i) /\ i \notin SeqToSet(history)

\* C19: with a rate r > 0 every call of Wait(n), n >= 0, eventually returns, also
\* when n is larger than r and when it is made by ThrottledReader.Read or
\* ThrottledWriter.Write
C19_WaitReturns ==
    \A w \in Waiters :
        (waiter[w].pc \in {"entry", "lock", "sleep"}) ~> (waiter[w].pc = "returned")

\* C20: the bucket holds between 0 and r tokens, and the sum of n over the calls of
\* Wait(n) that have returned by time t (clock / TicksPerSecond seconds) is at most
\* r + r * t
C20_ConsumedWithinBudget ==
    /\ rl.tokens >= 0 /\ rl.tokens <= rl.bytesPerSecond
    /\ clock < MaxTime =>
         consumed * TicksPerSecond <= rl.bytesPerSecond * TicksPerSecond + rl.bytesPerSecond * clock

\* the two goroutines have consumed the whole budget of the first second and a half
C20_Witness ==
    /\ clock = 3
    /\ consumed * TicksPerSecond = rl.bytesPerSecond * TicksPerSecond + rl.bytesPerSecond * clock
    /\ \A w \in Waiters : waiter[w].pc = "returned" /\ waiter[w].n > 0

\* C21: with rate 0 a call of Wait(n) goes from its entry straight to its return, for
\* every n: it never takes the lock and never sleeps, no step of a caller changes the
\* token count or the time since the last refill, nothing is consumed, and WrapReader
\* and WrapWriter hand back the stream they were given
C21_UnlimitedIsNoOp ==
    /\ [](rl.bytesPerSecond = 0 =>
            /\ \A w \in Waiters : waiter[w].pc \in {"idle", "entry", "returned"}
            /\ consumed = 0
            /\ \A k \in DOMAIN wrapped : wrapped[k] \in {"none", "plain"})
    /\ [][rl.bytesPerSecond = 0 =>
            \A w \in Waiters :
                waiter'[w] # waiter[w] =>
                    /\ rl' = rl
                    /\ waiter[w].pc = "entry" => waiter'[w].pc = "returned"
         ]_vars

\* at rate 0 a call of Wait(MaxN) has returned, time has passed, and both streams
\* were wrapped
C21_Witness ==
    /\ rl.bytesPerSecond = 0
    /\ clock > 0
    /\ \E w \in Waiters : waiter[w].pc = "returned" /\ waiter[w].n = MaxN
    /\ wrapped["reader"] = "plain" /\ wrapped["writer"] = "plain"

\* C22: a call of Wait that sleeps in its loop eventually returns, whatever rate
\* SetRate installs meanwhile (0 and rates below the n waited for included)
C22_SleepingWaitReturns ==
    \A w \in Waiters : (waiter[w].pc = "sleep") ~> (waiter[w].pc = "returned")

\* ---- ResumeManager ----

\* C23: after any sequence of calls GetIncomplete returns exactly the stored
\* entries with 0 < transferred < total: none with transferred = 0 or
\* transferred >= total, and every entry that satisfies the condition.
C23_IncompleteIsExactlyPartial ==
    rmErr = "nil" =>
        \A id \in RMIds :
            id \in GetIncomplete <=>
                /\ id \in DOMAIN transfers
                /\ transfers[id].TransferredBytes \in 1..(transfers[id].TotalBytes - 1)

\* one entry half done and returned, one past its total and left out
C23_Witness ==
    /\ DOMAIN transfers = RMIds
    /\ transfers["t1"].TotalBytes = MaxTotal /\ transfers["t1"].TransferredBytes = 1
    /\ transfers["t2"].TransferredBytes > transfers["t2"].TotalBytes
    /\ GetIncomplete = {"t1"}

\* C24: an entry for an id appears only by StartTransfer(id) (with offset 0) and
\* disappears only by CompleteTransfer(id), ClearOld or Clear; FailTransfer(id, n)
\* on an existing entry keeps it with offset n; CompleteTransfer(id) leaves no
\* entry; UpdateProgress or FailTransfer on an id without entry creates none,
\* schedules no save and changes nothing.
C24_EntryLifecycle ==
    [][\A id \in RMIds :
          /\ (id \notin DOMAIN transfers /\ id \in DOMAIN transfers')
                => \E t \in Totals : StartTransfer(id, t)
          /\ \A t \in Totals :
                StartTransfer(id, t)
                    => /\ id \in DOMAIN transfers'
                       /\ transfers'[id].TotalBytes = t
                       /\ transfers'[id].TransferredBytes = 0
          /\ (id \in DOMAIN transfers /\ id \notin DOMAIN transfers')
                => \/ CompleteTransfer(id)
                   \/ Clear
                   \/ \E a \in 0..(MaxAgeTicks - 1) : ClearOld(a)
          /\ CompleteTransfer(id) => id \notin DOMAIN transfers'
          /\ \A n \in Offsets :
                /\ (id \in DOMAIN transfers /\ FailTransfer(id, n))
                      => /\ id \in DOMAIN transfers'
                         /\ transfers'[id].TransferredBytes = n
                         /\ transfers'[id].TotalBytes = transfers[id].TotalBytes
                /\ (id \notin DOMAIN transfers /\ (UpdateProgress(id, n) \/ FailTransfer(id, n)))
                      => UNCHANGED <<transfers, stateFile, saves>>
      ]_vars

\* t2 was started with total 1 and saved, and has been removed since; t1 carries
\* an offset written by UpdateProgress or FailTransfer
C24_Witness ==
    /\ "t2" \notin DOMAIN transfers
    /\ stateFile.kind = "valid"
    /\ "t2" \in DOMAIN stateFile.content
    /\ stateFile.content["t2"].TotalBytes = 1
    /\ "t1" \in DOMAIN transfers
    /\ transfers["t1"].TransferredBytes = MaxTotal + 1

\* C25: over a state file that exists and cannot be parsed NewResumeManager
\* returns a manager, and the manager has no entries.
C25_ParseFailureNotFatal ==
    stateFile.kind = "corrupt" => rmErr = "nil" /\ transfers = EmptyMap /\ GetIncomplete = {}

\* C26: when every scheduled save has finished, the state file holds exactly the
\* entries and offsets of rm.transfers.
C26_FileMatchesMemory ==
    (rmErr = "nil" /\ SavesDone)
        => stateFile.content = [id \in DOMAIN transfers |-> Marshalled(transfers[id])]

\* ---- DirCache ----

\* C27: in every state, whatever Set, Invalidate, InvalidateAll and sweeps came
\* before, Get(key) is a hit exactly when a Set of the key has not been
\* invalidated since and is at most ttl old, the hit carries the files of that
\* Set, and Get is a miss otherwise.
C27_GetHitsExactlyFresh ==
    \A p \in DCKeys :
        IF p \in DOMAIN lastSet /\ lastSet[p].age <= ttl
        THEN Get(p) = [hit |-> TRUE, files |-> lastSet[p].Files]
        ELSE Get(p) = Miss

\* Get has just hit an entry exactly ttl old, after a sweep removed the other key's entry
C27_Witness ==
    /\ got.hit /\ got.path = "/a"
    /\ "/a" \in DOMAIN entries /\ entries["/a"].age = ttl /\ got.files = entries["/a"].Files
    /\ "/b" \in DOMAIN lastSet /\ "/b" \notin DOMAIN entries
    /\ ttl = MaxTTL

\* ---- Syncer.Analyze ----

\* the positions of the plan whose action is about the path p
ActionsOn(p) ==
    {k \in DOMAIN plan.actions : plan.actions[k].LocalPath = p \/ plan.actions[k].RemotePath = p}

\* the path p has exactly one action in the plan, of the given type
OneAction(p, type) ==
    /\ Cardinality(ActionsOn(p)) = 1
    /\ \A k \in ActionsOn(p) : plan.actions[k].Type = type

\* C28: in Upload mode the plan of Analyze has exactly one action for every local
\* file and none for a remote-only file: upload when the file is absent remotely
\* or when it is present, needs sync and the local time is strictly newer, skip
\* otherwise; the plan holds no download and no delete.
C28_UploadPlan ==
    (plan.done /\ options.Mode = ModeUpload) =>
        /\ \A p \in SyncPaths :
              IF p \notin DOMAIN localMap THEN ActionsOn(p) = {}
              ELSE IF p \notin DOMAIN remoteMap THEN OneAction(p, "upload")
              ELSE IF needsSync(localMap[p], remoteMap[p])
                        /\ localMap[p].ModTime > remoteMap[p].ModTime
                   THEN OneAction(p, "upload")
                   ELSE OneAction(p, "skip")
        /\ \A k \in DOMAIN plan.actions : plan.actions[k].Type \in {"upload", "skip"}

\* Upload mode by size: one file differs in size and has the same time on both
\* sides (skip), the other is local only (upload)
C28_Witness ==
    /\ plan.done /\ options.Mode = ModeUpload /\ options.CompareMethod = CompareBySize
    /\ DOMAIN localMap = SyncPaths /\ DOMAIN remoteMap = {"a"}
    /\ localMap["a"].Size # remoteMap["a"].Size
    /\ localMap["a"].ModTime = remoteMap["a"].ModTime
    /\ Len(plan.actions) = 2
    /\ OneAction("a", "skip") /\ OneAction("b", "upload")

C30_BidirectionalPlan ==
    (plan.done /\ options.Mode = ModeBidirectional) =>
        \A p \in SyncPaths :
            /\ Cardinality(ActionsOn(p)) <= 1
            /\ IF p \in DOMAIN localMap /\ p \in DOMAIN remoteMap
               THEN IF needsSync(localMap[p], remoteMap[p])
                    THEN /\ OneAction(p, "upload") <=> localMap[p].ModTime > remoteMap[p].ModTime
                         /\ OneAction(p, "download") <=> remoteMap[p].ModTime > localMap[p].ModTime
                    ELSE ActionsOn(p) = {}
               ELSE IF p \in DOMAIN localMap THEN OneAction(p, "upload")
               ELSE IF p \in DOMAIN remoteMap THEN OneAction(p, "download")
               ELSE ActionsOn(p) = {}

\* C31: under CompareBySizeAndTime needsSync is false exactly when the sizes are
\* equal and the modification times differ by at most 2 seconds (exactly 2 seconds
\* is in sync), and it gives the same answer with the two sides exchanged.
C31_SizeAndTime ==
    options.CompareMethod = CompareBySizeAndTime =>
        \A p \in DOMAIN localMap \cap DOMAIN remoteMap :
            /\ ~needsSync(localMap[p], remoteMap[p])
                  <=> /\ localMap[p].Size = remoteMap[p].Size
                      /\ localMap[p].ModTime - remoteMap[p].ModTime \in -2..2
            /\ needsSync(localMap[p], remoteMap[p]) = needsSync(remoteMap[p], localMap[p])

\* equal sizes on both sides: a is 2 seconds newer locally and Upload skips it,
\* b is 3 seconds newer locally and Upload uploads it
C31_Witness ==
    /\ plan.done /\ options.Mode = ModeUpload /\ options.CompareMethod = CompareBySizeAndTime
    /\ DOMAIN localMap = SyncPaths /\ DOMAIN remoteMap = SyncPaths
    /\ localMap["a"].Size = remoteMap["a"].Size
    /\ localMap["a"].ModTime = remoteMap["a"].ModTime + 2
    /\ localMap["b"].Size = remoteMap["b"].Size
    /\ localMap["b"].ModTime = remoteMap["b"].ModTime + 3
    /\ OneAction("a", "skip") /\ OneAction("b", "upload")

\* ---- Syncer.Execute ----

\* C32: a replay of the plan in which every action succeeded and no cancellation
\* was observed reports the counts that the dry run reports for the same plan:
\* uploads, downloads, deletions and skips.
C32_DryRunCounts ==
    (ex.pc = "returned" /\ ex.result.Errors = NoErrors) =>
        /\ ex.result.FilesUploaded = Tally(plan.actions).FilesUploaded
        /\ ex.result.FilesDownloaded = Tally(plan.actions).FilesDownloaded
        /\ ex.result.FilesDeleted = Tally(plan.actions).FilesDeleted
        /\ ex.result.FilesSkipped = Tally(plan.actions).FilesSkipped

\* a replay without error that skipped one file and deleted the other remotely
C32_Witness ==
    /\ ex.pc = "returned" /\ ~options.DryRun /\ ex.result.Errors = NoErrors
    /\ Len(ex.attempted) = 2
    /\ ex.result.FilesSkipped = 1 /\ ex.result.FilesDeleted = 1

\* C33: with DryRun set Execute calls no Upload, Download, Stat or Remove of the
\* Transport and removes no local file, and no step changes the local or the
\* remote tree; List is the only call made.
C33_DryRunMutatesNothing ==
    /\ [](options.DryRun =>
            /\ ex.calls.Upload = 0 /\ ex.calls.Download = 0 /\ ex.calls.Remove = 0
            /\ ex.calls.Stat = 0 /\ ex.calls.osRemove = 0
            /\ ex.attempted = <<>>)
    /\ [][options.DryRun => localMap' = localMap /\ remoteMap' = remoteMap]_vars

\* a dry run has returned a plan of an upload and a deletion, having listed the remote tree
C33_Witness ==
    /\ options.DryRun /\ ex.pc = "returned"
    /\ ex.calls.List = 1
    /\ ex.result.FilesUploaded = 1 /\ ex.result.FilesDeleted = 1
    /\ DOMAIN localMap = {"a"} /\ DOMAIN remoteMap = {"b"}

\* C34: a replay that observed no cancellation has attempted every action of the
\* plan once, in plan order, whatever failed on the way, and its four counts plus
\* the number of its errors equal the number of planned actions.
C34_EveryActionAttempted ==
    (ex.pc = "returned" /\ ~options.DryRun
        /\ \A k \in DOMAIN ex.result.Errors : ex.result.Errors[k] # "ctx") =>
        /\ ex.attempted = [k \in 1..Len(plan.actions) |-> k]
        /\ ex.result.FilesUploaded + ex.result.FilesDownloaded + ex.result.FilesDeleted
              + ex.result.FilesSkipped + Len(ex.result.Errors) = Len(plan.actions)

\* the first action failed and the second was performed all the same
C34_Witness ==
    /\ ex.pc = "returned" /\ ~options.DryRun
    /\ ex.attempted = <<1, 2>>
    /\ Len(ex.result.Errors) = 1 /\ ex.result.Errors[1] # "ctx"
    /\ ex.calls.Upload + ex.calls.Download + ex.calls.Remove = 2
    /\ ex.result.FilesUploaded + ex.result.FilesDownloaded + ex.result.FilesDeleted = 1

\* C35: when the loop finds the context cancelled before an action, the step it
\* takes returns: it attempts nothing, makes no call, changes no tree and no
\* count, and appends one cancellation error; a returned result holds at most one
\* cancellation error, as its last error.
C35_CancelStopsReplay ==
    /\ [][(ex.pc = "loop" /\ ex.next <= Len(plan.actions) /\ ctxDone /\ ex' # ex) =>
            /\ ex'.pc = "returned"
            /\ ex'.attempted = ex.attempted
            /\ ex'.calls = ex.calls
            /\ ex'.result = [ex.result EXCEPT !.Errors = Append(@, "ctx")]
            /\ localMap' = localMap /\ remoteMap' = remoteMap
         ]_vars
    /\ [](\A k \in DOMAIN ex.result.Errors :
             ex.result.Errors[k] = "ctx" => ex.pc = "returned" /\ k = Len(ex.result.Errors))

\* cancelled after the first of two actions: one upload done, one cancellation error
C35_Witness ==
    /\ ex.pc = "returned" /\ ctxDone
    /\ Len(plan.actions) = 2 /\ ex.attempted = <<1>>
    /\ ex.result.FilesUploaded = 1
    /\ ex.result.Errors = <<"ctx">>

\* C36: with a limit of at least 1 at all times, Transport calls that return and
\* finitely many items, under fair scheduling of the goroutines: whenever no pass
\* holds the lock, a slot is free and an item waits Pending, a scheduling pass is
\* still to come; every Pending item eventually reaches a terminal status unless it
\* is paused first, and an item reaches a terminal status only after it was started;
\* and whenever items run the active count eventually returns to 0
C36_SchedulerProgress ==
    /\ []((mu = "free" /\ active < maxParallel /\ NextPending # 0) => pqPending > 0)
    /\ [](\A i \in Ids : items[i].Status \in Terminal => Started(i))
    /\ \A i \in 1..MaxItems :
         (i \in Ids /\ items[i].Status = StatusPending)
            ~> (i \in Ids /\ items[i].Status \in Terminal \cup {StatusPaused})
    /\ (active > 0) ~> (active = 0)

\* under a limit of 1 two items were served one after the other: both completed and
\* moved to the history, the active count is back at 0 and no pass is left to run
C36_Witness ==
    /\ maxParallel = 1 /\ active = 0 /\ pqPending = 0 /\ mu = "free"
    /\ idCounter = MaxItems
    /\ \A i \in Ids : items[i].Status = StatusCompleted /\ exec[i].pc = "done"

\* C37: at the step where Wait returns no item in the queue is Pending or InProgress
\* and the active count is 0, whatever AddUpload / AddDownload did before the call
C37_WaitMeansAllDone ==
    [][ManagerWaitReturn =>
         /\ active = 0
         /\ \A i \in Queued : items[i].Status \notin {StatusPending, StatusInProgress}
      ]_vars

\* C38: the list of records in the state file, entries and offsets, is a state
\* rm.transfers has been in at one instant, whatever StartTransfer, UpdateProgress,
\* FailTransfer and CompleteTransfer did while a save was running
C38_FileIsOneInstant ==
    (memHist.on /\ stateFile.kind = "valid") => stateFile.content \in memHist.states

\* what Get(path) returns from a cache on which no sweep ever ran: the same Set,
\* Invalidate and InvalidateAll calls at the same times, and Get's own test
GetWithoutSweeps(path) ==
    IF path \notin DOMAIN lastSet THEN Miss
    ELSE IF GetExpired(lastSet[path]) THEN Miss
    ELSE [hit |-> TRUE, files |-> lastSet[path].Files]

\* C39: a sweep removes only entries older than ttl, on which Get already misses,
\* and changes the result of no Get; and at every point of every sequence of Set,
\* Get, Invalidate and InvalidateAll calls Get returns for every path what it
\* returns from the cache on which no sweep ran
C39_SweepInvisible ==
    /\ [][cleanup =>
            /\ \A p \in DOMAIN entries \ DOMAIN entries' :
                    entries[p].age > ttl /\ Get(p) = Miss
            /\ \A p \in DOMAIN entries' : entries'[p] = entries[p]
            /\ \A p \in DCKeys : Get(p)' = Get(p)
         ]_vars
    /\ [](\A p \in DCKeys : Get(p) = GetWithoutSweeps(p))
    /\ [][\A p \in DCKeys : GetCall(p) =>
            got' = [path |-> p, hit |-> GetWithoutSweeps(p).hit,
                    files |-> GetWithoutSweeps(p).files]]_vars

\* the sweep that followed the last tick removed the entry of /a and left that of
\* /b, which is exactly ttl old; Get(/a) has just missed
C39_Witness ==
    /\ "/a" \in DOMAIN lastSet \ DOMAIN entries
    /\ got.path = "/a" /\ ~got.hit
    /\ "/b" \in DOMAIN entries /\ entries["/b"].age = ttl
    /\ ticker.since = 0 /\ ~ticker.due /\ sweeper = "running"

\* C40: when both directories hold the same files, the local scan keeps a file
\* exactly when the remote scan keeps the file at the same relative path, also a
\* file inside a sub-directory whose name is hidden, matches an exclude pattern or
\* matches no include pattern; and every action the plan has for such a file is a skip
C40_SameFilterBothSides ==
    plan.done =>
        \A path \in tree :
            /\ path \in DOMAIN localMap <=> path \in DOMAIN remoteMap
            /\ \A k \in ActionsOn(path) : plan.actions[k].Type = "skip"

====
